---------------------------- MODULE Spec2Model ----------------------------
(***************************************************************************)
(* Model of the image-classification core of Happy-Meowth (src/predict.py):*)
(* PredictionCache (get / set / _cleanup_expired) and Prediction (predict, *)
(* predict_sync, preprocess_image_from_url, softmax and the label lookup). *)
(*                                                                         *)
(* Python values are modelled as follows.                                  *)
(*   None                      the empty tuple <<>>                        *)
(*   (name, confidence)        the tuple <<name, confidence>>              *)
(*   dict self.cache           a function from keys to pairs               *)
(*   dict self.timestamps      a sequence of <<key, timestamp>> in dict    *)
(*                             insertion order (min() breaks ties by it)   *)
(*   an exception              the tuple <<type, message prefix>>          *)
(***************************************************************************)
EXTENDS Integers, Sequences, FiniteSets, Bags, TLC

(***************************************************************************)
(* max_size and ttl_seconds are the constructor defaults of                *)
(* PredictionCache (1000 entries, 3600 seconds) scaled down so that        *)
(* eviction and expiry happen within the clock horizon MaxTime.  MaxCalls  *)
(* bounds the predict coroutines suspended at one time.                    *)
(***************************************************************************)
max_size == 2
ttl_seconds == 1
MaxTime == 2
MaxCalls == 2

(* by how much the clock advances between two reads within one call *)
Delays == {0, 1}

None == <<>>

(***************************************************************************)
(* The URLs requested.  They differ only in query order and in a trailing  *)
(* slash.                                                                  *)
(***************************************************************************)
URLs == {"http://h/p?a=1&b=2", "http://h/p?b=2&a=1", "http://h/p/?a=1&b=2"}

(* the key as the digest of the URL without its query string *)
generate_cache_keyMutNoQuery(url) ==
    CASE url = "http://h/p?a=1&b=2"  -> "48148c8a610106cad34265b77cac2479"
      [] url = "http://h/p?b=2&a=1"  -> "48148c8a610106cad34265b77cac2479"
      [] url = "http://h/p/?a=1&b=2" -> "bf6603bf02ba35ac5b533e44ba1fbaa7"

(* the key as the digest of the URL with a slash before the query dropped *)
generate_cache_keyMutNoSlash(url) ==
    CASE url = "http://h/p?a=1&b=2"  -> "e411a620c4b7c7cc7c5b1c1c5520bb0b"
      [] url = "http://h/p?b=2&a=1"  -> "32e1ac78b9147c8739694dbbb26bae6f"
      [] url = "http://h/p/?a=1&b=2" -> "e411a620c4b7c7cc7c5b1c1c5520bb0b"

(* hashlib.md5(url.encode()).hexdigest() of the URLs above *)
generate_cache_key(url) ==
    CASE url = "http://h/p?a=1&b=2"  -> "e411a620c4b7c7cc7c5b1c1c5520bb0b"
      [] url = "http://h/p?b=2&a=1"  -> "32e1ac78b9147c8739694dbbb26bae6f"
      [] url = "http://h/p/?a=1&b=2" -> "7f8dc8a554b9dd0d87ba665a917a8755"

Keys == {generate_cache_key(u) : u \in URLs}

(***************************************************************************)
(* PredictionCache.  A cache object is [cache, timestamps].                *)
(***************************************************************************)
EmptyCache == [cache |-> <<>>, timestamps |-> <<>>]

TsKeys(ts) == {ts[i][1] : i \in DOMAIN ts}

TsOf(ts, key) == ts[CHOOSE i \in DOMAIN ts : ts[i][1] = key][2]

(* the removal of keys from self.cache alone, their timestamps staying *)
PopMutCacheOnly(c, keys) ==
    [cache |-> [k \in (DOMAIN c.cache) \ keys |-> c.cache[k]],
     timestamps |-> c.timestamps]

(* dict.pop(key, None) on both dicts *)
Pop(c, keys) ==
    [cache |-> [k \in (DOMAIN c.cache) \ keys |-> c.cache[k]],
     timestamps |-> SelectSeq(c.timestamps, LAMBDA e : e[1] \notin keys)]

(* the expiry test with >= for > *)
IsExpiredMutGE(timestamp, current_time) == current_time - timestamp >= ttl_seconds

(* the test of _cleanup_expired: current_time - timestamp > self.ttl_seconds *)
IsExpired(timestamp, current_time) == current_time - timestamp > ttl_seconds

expired_keys(c, current_time) ==
    {c.timestamps[i][1] : i \in {j \in DOMAIN c.timestamps :
                                   IsExpired(c.timestamps[j][2], current_time)}}

cleanup_expired(c, current_time) == Pop(c, expired_keys(c, current_time))

(* get without the expiry sweep and the age test *)
getMutNoExpiry(c, key, t1, t2) ==
    IF key \in DOMAIN c.cache
    THEN [c |-> c, value |-> c.cache[key]]
    ELSE [c |-> c, value |-> None]

(* get testing the key's own age only, without the sweep of the cache *)
getMutNoSweep(c, key, t1, t2) ==
    IF key \in DOMAIN c.cache
    THEN IF t2 - TsOf(c.timestamps, key) <= ttl_seconds
         THEN [c |-> c, value |-> c.cache[key]]
         ELSE [c |-> Pop(c, {key}), value |-> None]
    ELSE [c |-> c, value |-> None]

(* get refreshing the timestamp of the entry it returns *)
getMutTouch(c, key, t1, t2) ==
    LET c1 == Pop(c, expired_keys(c, t1)) IN
    IF key \in DOMAIN c1.cache
    THEN IF t2 - TsOf(c1.timestamps, key) <= ttl_seconds
         THEN [c |-> [c1 EXCEPT !.timestamps =
                         [i \in DOMAIN @ |-> IF @[i][1] = key THEN <<key, t2>> ELSE @[i]]],
               value |-> c1.cache[key]]
         ELSE [c |-> Pop(c1, {key}), value |-> None]
    ELSE [c |-> c1, value |-> None]

(* get(key): t1 is the clock read by _cleanup_expired, t2 the one read by   *)
(* get itself.  Returns the cache object after the call and the value.      *)
get(c, key, t1, t2) ==
    LET c1 == cleanup_expired(c, t1) IN
    IF key \in DOMAIN c1.cache
    THEN IF t2 - TsOf(c1.timestamps, key) <= ttl_seconds
         THEN [c |-> c1, value |-> c1.cache[key]]
         ELSE [c |-> Pop(c1, {key}), value |-> None]
    ELSE [c |-> c1, value |-> None]

(* the eviction victim taken as the key of the largest timestamp *)
oldest_keyMutNewest(ts) ==
    LET i == CHOOSE i \in DOMAIN ts : \A j \in DOMAIN ts : ts[i][2] >= ts[j][2]
    IN ts[i][1]

(* min(self.timestamps.keys(), key=lambda k: self.timestamps[k]): the first *)
(* key, in dict order, among those of minimal timestamp                     *)
oldest_key(ts) ==
    LET i == CHOOSE i \in DOMAIN ts :
                 /\ \A j \in DOMAIN ts : ts[i][2] <= ts[j][2]
                 /\ \A j \in 1..(i - 1) : ts[j][2] > ts[i][2]
    IN ts[i][1]

(* the capacity test with > for >= *)
IsFullMutGT(c) == Cardinality(DOMAIN c.cache) > max_size

(* the test of set: len(self.cache) >= self.max_size *)
IsFull(c) == Cardinality(DOMAIN c.cache) >= max_size

(* the keys removed by the capacity eviction of a set at clock t1 *)
evicted_keys(c, t1) ==
    LET c1 == cleanup_expired(c, t1) IN
    IF IsFull(c1) THEN {oldest_key(c1.timestamps)} ELSE {}

(* dict assignment: an existing key keeps its place, a new one goes last *)
Assign(ts, key, t) ==
    IF key \in TsKeys(ts)
    THEN [i \in DOMAIN ts |-> IF ts[i][1] = key THEN <<key, t>> ELSE ts[i]]
    ELSE Append(ts, <<key, t>>)

(* set(key, value): t1 is the clock read by _cleanup_expired, t2 the one    *)
(* stored as the timestamp.                                                 *)
set(c, key, value, t1, t2) ==
    LET c1 == cleanup_expired(c, t1)
        c2 == Pop(c1, evicted_keys(c, t1))
    IN [cache |-> [k \in (DOMAIN c2.cache) \cup {key} |->
                      IF k = key THEN value ELSE c2.cache[k]],
        timestamps |-> Assign(c2.timestamps, key, t2)]


(***************************************************************************)
(* The network and the image decoder.  A fetch ends in a network exception *)
(* (exc # "") or in a response with a status and a body.                   *)
(***************************************************************************)
NetworkErrors == {"ClientConnectorError", "TimeoutError"}
Statuses == {200, 206, 404}
Bodies == {"png0", "png2", "junk"}

Responses ==
    {[exc |-> e, status |-> 0, body |-> ""] : e \in NetworkErrors}
    \cup {[exc |-> "", status |-> s, body |-> b] : s \in Statuses, b \in Bodies}

Sessions == {"None", "ClientSession"}

(* Image.open(io.BytesIO(data)).convert("RGB") raises on bytes that are no image *)
Decodable(body) == body \in {"png0", "png2"}

(* resize, normalise, transpose, expand_dims: the 1x3x224x224 tensor of the body *)
Tensor(body) == <<"float32[1,3,224,224]", body>>

(* a failed fetch-and-decode: the stage that failed and the exception raised *)
Failure(stage, error) == [ok |-> FALSE, image |-> None, stage |-> stage, error |-> error]

Decoded(body) == [ok |-> TRUE, image |-> Tensor(body), stage |-> "done", error |-> None]

(* the status test accepting every 2xx *)
StatusOkMut2xx(status) == status >= 200 /\ status <= 299

(* the test of preprocess_image_from_url: response.status != 200 raises *)
StatusOk(status) == status = 200

(* async fetch and decode; every exception of the fetch block, the HTTP     *)
(* status error included, is re-raised as ValueError("Failed to load ...")  *)
preprocess_image_from_url(resp) ==
    IF resp.exc # "" \/ ~StatusOk(resp.status)
    THEN Failure("fetch", <<"ValueError", "Failed to load image from URL">>)
    ELSE IF ~Decodable(resp.body)
    THEN Failure("decode", <<"ValueError", "Failed to process image">>)
    ELSE Decoded(resp.body)

(* the try block of predict_sync: requests.get(url, timeout=5) and the      *)
(* decoding of response.content, with no look at the status                 *)
sync_fetch_and_decode(resp) ==
    IF resp.exc # ""
    THEN Failure("fetch", <<"ValueError", "Failed to load image from URL">>)
    ELSE IF ~Decodable(resp.body)
    THEN Failure("decode", <<"ValueError", "Failed to load image from URL">>)
    ELSE Decoded(resp.body)

(***************************************************************************)
(* Inference and the result formatter.                                     *)
(***************************************************************************)
(* the logits of the model artifact for each tensor *)
Logits(image) ==
    CASE image[2] = "png0" -> <<5, 1, 0>>
      [] image[2] = "png2" -> <<0, 0, 2>>

(* self.ort_session.run(None, inputs): the logits, or an onnxruntime error *)
ort_run(image, runOk) ==
    IF runOk THEN [ok |-> TRUE, logits |-> Logits(image), error |-> None]
    ELSE [ok |-> FALSE, logits |-> <<>>, error |-> <<"InvalidArgument", "">>]

Max(x) == CHOOSE m \in {x[i] : i \in DOMAIN x} : \A i \in DOMAIN x : x[i] <= m

(* int(np.argmax(logits)): the first index (from 0) of the largest logit *)
argmax(x) == (CHOOSE i \in DOMAIN x :
                  /\ x[i] = Max(x)
                  /\ \A j \in 1..(i - 1) : x[j] < x[i]) - 1

(* np.exp(-d) in units of 1/100000 *)
ExpNeg(d) ==
    CASE d = 0 -> 100000
      [] d = 1 -> 36788
      [] d = 2 -> 13534
      [] d = 3 -> 4979
      [] d = 4 -> 1832
      [] d = 5 -> 674
      [] d = 6 -> 248
      [] d = 7 -> 91
      [] d = 8 -> 34
      [] d = 9 -> 12
      [] d = 10 -> 5
      [] d = 11 -> 2
      [] d = 12 -> 1
      [] OTHER -> 0

RECURSIVE Sum(_)
Sum(x) == IF x = <<>> THEN 0 ELSE Head(x) + Sum(Tail(x))

(* softmax: exp(x - max(x)) / sum; each probability as <<numerator, denominator>> *)
softmax(x) ==
    LET exp_x == [i \in DOMAIN x |-> ExpNeg(Max(x) - x[i])]
    IN [i \in DOMAIN x |-> <<exp_x[i], Sum(exp_x)>>]

Digit(n) == ToString(n)

(* the confidence formatted with one decimal place *)
FormatConfidenceMutOneDecimal(prob) ==
    LET t == (2000 * prob[1] + prob[2]) \div (2 * prob[2])
    IN ToString(t \div 10) \o "." \o Digit(t % 10) \o "%"

(* f"{prob * 100:.2f}%": prob * 100 rounded to hundredths *)
FormatConfidence(prob) ==
    LET h == (20000 * prob[1] + prob[2]) \div (2 * prob[2])
    IN ToString(h \div 100) \o "." \o Digit((h % 100) \div 10) \o Digit(h % 10) \o "%"

(* the label lookup clamping an index out of range to the last label *)
LabelOfMutClamp(names, pred_idx) ==
    IF pred_idx < Len(names) THEN names[pred_idx + 1] ELSE names[Len(names)]

(* self.class_names[pred_idx] if pred_idx < len(self.class_names) else f"unknown_{pred_idx}" *)
LabelOf(names, pred_idx) ==
    IF pred_idx < Len(names) THEN names[pred_idx + 1]
    ELSE "unknown_" \o ToString(pred_idx)

(* the confidence taken from the logit at the arg-max index *)
format_resultMutRawLogit(names, logits) ==
    LET pred_idx == argmax(logits)
        prob == <<IF logits[pred_idx + 1] < 0 THEN 0 ELSE logits[pred_idx + 1], 100>>
    IN <<LabelOf(names, pred_idx), FormatConfidence(prob)>>

(* lines 186-195 of predict (236-244 of predict_sync): logits to the pair *)
format_result(names, logits) ==
    LET pred_idx == argmax(logits)
        probabilities == softmax(logits)
        prob == probabilities[pred_idx + 1]
    IN <<LabelOf(names, pred_idx), FormatConfidence(prob)>>

(* the label table loaded at construction; the model has three outputs *)
LabelTables == {<<"Pikachu", "Charmander">>}

(* format_result tabulated over the label tables and the model's outputs *)
ResultTable ==
    [names \in LabelTables |->
        [logits \in {Logits(Tensor(b)) : b \in {x \in Bodies : Decodable(x)}} |->
            format_result(names, logits)]]

(* the truth value of a returned cache entry: None and () are false *)
Truthy(v) == Len(v) > 0


(***************************************************************************)
(* Prediction.predict and Prediction.predict_sync as functions of the      *)
(* cache object, the inputs and the clock values read.  An outcome is the  *)
(* cache object after the call, state ("return", "raise", or "await" when  *)
(* the coroutine is suspended in the fetch), the value returned or the     *)
(* error raised, and what the call did: the stage it ended in ("cache",    *)
(* "session", "fetch", "decode", "inference", "done"), the fetches and     *)
(* inference runs it made, whether it called cache.set, the keys that set  *)
(* evicted for capacity and the arg-max index (-1 when there is none).     *)
(***************************************************************************)
Raise(c, stage, error, fetches, infers) ==
    [c |-> c, state |-> "raise", value |-> None, error |-> error, stage |-> stage,
     fetches |-> fetches, infers |-> infers, inserted |-> FALSE, evicted |-> {},
     pred_idx |-> -1]

Return(c, stage, value, fetches, infers, inserted, evicted, pred_idx) ==
    [c |-> c, state |-> "return", value |-> value, error |-> None, stage |-> stage,
     fetches |-> fetches, infers |-> infers, inserted |-> inserted,
     evicted |-> evicted, pred_idx |-> pred_idx]

Await(c) ==
    [c |-> c, state |-> "await", value |-> None, error |-> None, stage |-> "fetch",
     fetches |-> 0, infers |-> 0, inserted |-> FALSE, evicted |-> {}, pred_idx |-> -1]

(* predict looking for a session before it looks in the cache *)
predict_beginMutSessionFirst(c, ambient, url, session, t1, t2) ==
    IF session = "None" /\ ambient = "None"
    THEN Raise(c, "session", <<"ValueError", "HTTP session not available">>, 0, 0)
    ELSE LET g == get(c, generate_cache_key(url), t1, t2) IN
         IF Truthy(g.value)
         THEN Return(g.c, "cache", g.value, 0, 0, FALSE, {}, -1)
         ELSE Await(g.c)

(* predict up to its await: the cache lookup and the choice of the session *)
predict_begin(c, ambient, url, session, t1, t2) ==
    LET g == get(c, generate_cache_key(url), t1, t2) IN
    IF Truthy(g.value)
    THEN Return(g.c, "cache", g.value, 0, 0, FALSE, {}, -1)
    ELSE IF session = "None" /\ ambient = "None"
    THEN Raise(g.c, "session", <<"ValueError", "HTTP session not available">>, 0, 0)
    ELSE Await(g.c)

(* inference, formatting and the cache insert, common to both entry points *)
infer_and_cache(c, names, url, image, runOk, t1, t2) ==
    LET r == ort_run(image, runOk) IN
    IF ~r.ok
    THEN Raise(c, "inference", r.error, 1, 1)
    ELSE LET result == ResultTable[names][r.logits]
         IN Return(set(c, generate_cache_key(url), result, t1, t2), "done", result,
                   1, 1, TRUE, evicted_keys(c, t1), argmax(r.logits))

(* predict caching a placeholder when the fetch or the decoding failed *)
predict_resumeMutNegativeCache(c, names, url, resp, runOk, t1, t2) ==
    LET p == preprocess_image_from_url(resp) IN
    IF ~p.ok
    THEN Raise(set(c, generate_cache_key(url), <<"unknown", "0.00%">>, t1, t2),
               p.stage, p.error, 1, 0)
    ELSE infer_and_cache(c, names, url, p.image, runOk, t1, t2)

(* predict returning None when the fetch or the decoding failed *)
predict_resumeMutSwallow(c, names, url, resp, runOk, t1, t2) ==
    LET p == preprocess_image_from_url(resp) IN
    IF ~p.ok
    THEN Return(c, p.stage, None, 1, 0, FALSE, {}, -1)
    ELSE infer_and_cache(c, names, url, p.image, runOk, t1, t2)

(* predict from the end of the fetch on *)
predict_resume(c, names, url, resp, runOk, t1, t2) ==
    LET p == preprocess_image_from_url(resp) IN
    IF ~p.ok
    THEN Raise(c, p.stage, p.error, 1, 0)
    ELSE infer_and_cache(c, names, url, p.image, runOk, t1, t2)

(* predict run to its end with no other task in between; tt are the four    *)
(* clock values read                                                        *)
predict(c, ambient, names, url, session, resp, runOk, tt) ==
    LET b == predict_begin(c, ambient, url, session, tt[1], tt[2]) IN
    IF b.state = "await"
    THEN predict_resume(b.c, names, url, resp, runOk, tt[3], tt[4])
    ELSE b

predict_sync(c, names, url, resp, runOk, tt) ==
    LET g == get(c, generate_cache_key(url), tt[1], tt[2]) IN
    IF Truthy(g.value)
    THEN Return(g.c, "cache", g.value, 0, 0, FALSE, {}, -1)
    ELSE LET p == sync_fetch_and_decode(resp) IN
         IF ~p.ok
         THEN Raise(g.c, p.stage, p.error, 1, 0)
         ELSE infer_and_cache(g.c, names, url, p.image, runOk, tt[3], tt[4])

(***************************************************************************)
(* The state.                                                              *)
(***************************************************************************)
(* what a fetch and the inference after it can do: a response and whether   *)
(* ort_session.run succeeds (it is not reached unless the body decodes)     *)
Fetched ==
    {[resp |-> r, runOk |-> TRUE] : r \in Responses}
    \cup {[resp |-> r, runOk |-> FALSE] : r \in {q \in Responses : Decodable(q.body)}}

VARIABLES
    cache,          \* PredictionCache.cache
    timestamps,     \* PredictionCache.timestamps
    now,            \* time.time()
    class_names,    \* Prediction.class_names
    calls,          \* the bag of predict coroutines suspended in their fetch
    last,           \* the call that has just ended, until its caller takes the outcome
    hist,           \* per URL, the pair and the time of the last insert not evicted since
    web,            \* per URL, the response it is served with, where that is fixed
    fs,             \* the files construction reads: model artifact, labels file, image directory
    predictor,      \* the predictor global of the main module
    http_session,   \* the http_session global of the main module
    proc,           \* the process: where main() is, and what it has created so far
    probe,          \* a logits vector and what the post-processing makes of it
    cacheop,        \* the last get or set made on the cache directly, and the cache before it
    loop,           \* the event loop: the predict coroutines on it, statement by statement
    lab,            \* a labels installation and the label tables constructions make of it
    spawn           \* a spawn message and what the on_message listener does with it

life == <<fs, predictor, http_session, proc>>

more == <<loop, lab, spawn>>

vars == <<cache, timestamps, now, class_names, calls, last, hist, web, life, probe,
         cacheop, more>>

CacheObj == [cache |-> cache, timestamps |-> timestamps]

NoCall ==
    [op |-> "none", url |-> "", state |-> "none", value |-> None, error |-> None,
     stage |-> "none", fetches |-> 0, infers |-> 0, inserted |-> FALSE,
     evicted |-> {}, pred_idx |-> -1, prior |-> None, resp |-> None]

(* what last keeps of the response of the call's fetch *)
Seen(resp) == <<resp.exc, resp.status>>

(* what last records of a call that ended with outcome o *)
Ended(op, url, o, prior, resp) ==
    [op |-> op, url |-> url, state |-> o.state, value |-> o.value, error |-> o.error,
     stage |-> o.stage, fetches |-> o.fetches, infers |-> o.infers,
     inserted |-> o.inserted, evicted |-> o.evicted, pred_idx |-> o.pred_idx,
     prior |-> prior, resp |-> resp]

(* the record of the URL's last insert as seen by a lookup at time t:       *)
(* <<pair, age>>, or None when the URL was never inserted or was evicted    *)
Prior(url, t) == IF hist[url] = None THEN None ELSE <<hist[url][1], t - hist[url][2]>>

(* the same, kept by a suspended call only while the insert is within the TTL *)
FreshPrior(url, t) ==
    IF hist[url] # None /\ t - hist[url][2] <= ttl_seconds THEN Prior(url, t) ELSE None

(* hist after set(key(url), value) at clocks t1, t2 on cache object c *)
HistAfterSet(h, c, url, value, t1, t2) ==
    [u \in URLs |->
        IF u = url THEN <<value, t2>>
        ELSE IF generate_cache_key(u) \in evicted_keys(c, t1) THEN None
        ELSE h[u]]

(* an expired record whose entry is gone from the cache is forgotten *)
HistAt(h, c, t) ==
    [u \in URLs |->
        IF /\ h[u] # None
           /\ t - h[u][2] > ttl_seconds
           /\ generate_cache_key(u) \notin DOMAIN c.cache
        THEN None ELSE h[u]]

(***************************************************************************)
(* Construction of the predictor (Prediction.__init__) and the main        *)
(* module's globals.  A file system is [onnx, labels, save_path]: whether  *)
(* the model artifact exists, the JSON shape of the labels file ("absent"  *)
(* when there is none) and whether the reference-image directory exists.   *)
(* A Prediction object is [class_names, cache, ort_session], a field not   *)
(* yet assigned being None.  HTTP sessions are numbered as created.  A     *)
(* reference to an object x is the tuple <<x>>, so that None is the only   *)
(* empty value.                                                            *)
(***************************************************************************)
Ref(x) == <<x>>

LabelFiles == {"absent", "list", "dict", "other"}

FileSystems == [onnx : BOOLEAN, labels : LabelFiles, save_path : BOOLEAN]

(* generate_labels_file_from_save_path: the sorted directory names, written *)
(* to the labels file as a list                                             *)
generate_labels_file_from_save_path(f, table) ==
    IF ~f.save_path
    THEN [ok |-> FALSE, names |-> None, fs |-> f, wrote |-> FALSE,
          error |-> <<"FileNotFoundError", "SAVE_PATH does not exist">>]
    ELSE [ok |-> TRUE, names |-> table, fs |-> [f EXCEPT !.labels = "list"],
          wrote |-> TRUE, error |-> None]

(* load_class_names deriving and writing the labels file whenever the      *)
(* image directory exists, the file being there or not                      *)
load_class_namesMutRegenerate(f, table) ==
    IF f.labels = "absent" \/ f.save_path
    THEN generate_labels_file_from_save_path(f, table)
    ELSE IF f.labels \in {"dict", "list"}
    THEN [ok |-> TRUE, names |-> table, fs |-> f, wrote |-> FALSE, error |-> None]
    ELSE [ok |-> FALSE, names |-> None, fs |-> f, wrote |-> FALSE,
          error |-> <<"ValueError", "labels_v2.json must be a list or dict">>]

(* load_class_names: table is the label table the file or directory holds;  *)
(* wrote tells whether the labels file was written                          *)
load_class_names(f, table) ==
    IF f.labels = "absent"
    THEN generate_labels_file_from_save_path(f, table)
    ELSE IF f.labels \in {"dict", "list"}
    THEN [ok |-> TRUE, names |-> table, fs |-> f, wrote |-> FALSE, error |-> None]
    ELSE [ok |-> FALSE, names |-> None, fs |-> f, wrote |-> FALSE,
          error |-> <<"ValueError", "labels_v2.json must be a list or dict">>]

(* Prediction.__init__: self as far as it was assigned, and the exception   *)
(* raised if any; ort.InferenceSession raises when the artifact is missing  *)
Prediction_init(f, table) ==
    LET l == load_class_names(f, table) IN
    IF ~l.ok
    THEN [ok |-> FALSE, fs |-> l.fs, wrote |-> l.wrote, error |-> l.error,
          self |-> [class_names |-> None, cache |-> None, ort_session |-> None]]
    ELSE IF ~l.fs.onnx
    THEN [ok |-> FALSE, fs |-> l.fs, wrote |-> l.wrote,
          error |-> <<"NoSuchFile", "Load model failed">>,
          self |-> [class_names |-> l.names, cache |-> Ref("PredictionCache"),
                    ort_session |-> None]]
    ELSE [ok |-> TRUE, fs |-> l.fs, wrote |-> l.wrote, error |-> None,
          self |-> [class_names |-> l.names, cache |-> Ref("PredictionCache"),
                    ort_session |-> Ref("InferenceSession")]]

(* initialize_predictor binding the object even when its construction raised *)
initialize_predictorMutPublish(pred, f, table) ==
    LET r == Prediction_init(f, table) IN
    [predictor |-> Ref(r.self), fs |-> r.fs, ok |-> r.ok, wrote |-> r.wrote,
     error |-> r.error]

(* initialize_predictor: predictor = Prediction() inside try / except       *)
(* Exception, which prints the error and leaves the global as it was        *)
initialize_predictor(pred, f, table) ==
    LET r == Prediction_init(f, table) IN
    [predictor |-> IF r.ok THEN Ref(r.self) ELSE pred, fs |-> r.fs, ok |-> r.ok,
     wrote |-> r.wrote, error |-> r.error]

(* no logits vector is under post-processing *)
NoProbe == [logits |-> <<>>, result |-> None]

(* no coroutine is on the event loop *)
NoLoop == [running |-> 0, last |-> 0, tasks |-> <<>>]

(* no labels installation is under study *)
NoLab ==
    [pc |-> "none", kind |-> "none", dir |-> {}, file |-> None, first |-> None,
     later |-> None, idx |-> -1, answer |-> None]

(* no spawn message is being handled *)
NoSpawn ==
    [pc |-> "none", own |-> FALSE, poketwo |-> FALSE, embed |-> FALSE, image |-> FALSE,
     outcome |-> None, replyOk |-> TRUE, replies |-> 0, log |-> "", escaped |-> FALSE]

(* no get or set has been made on the cache directly *)
NoOp ==
    [name |-> "none", url |-> "", value |-> None, result |-> None,
     before |-> EmptyCache, t1 |-> 0, t2 |-> 0]

(* the process once the bot is up: one ready event has been handled on a    *)
(* complete installation                                                    *)
Installed == [onnx |-> TRUE, labels |-> "list", save_path |-> TRUE]

Started ==
    [phase |-> "running", readies |-> 1, cogs |-> TRUE, handled |-> FALSE,
     predictors |-> 1, sessions |-> 1, writes |-> 0, closed |-> {},
     init_error |-> None]

(* the predictor after construction *)
Constructed ==
    /\ cache = <<>>
    /\ timestamps = <<>>
    /\ now = 0
    /\ class_names \in LabelTables
    /\ calls = EmptyBag
    /\ last = NoCall
    /\ hist = [u \in URLs |-> None]
    /\ fs = Installed
    /\ predictor = Ref(Prediction_init(Installed, class_names).self)
    /\ http_session = Ref(1)
    /\ proc = Started
    /\ probe = NoProbe
    /\ cacheop = NoOp
    /\ loop = NoLoop
    /\ lab = NoLab
    /\ spawn = NoSpawn

(* no URL is tied to a response: each fetch may end in any way *)
Init == Constructed /\ web = [u \in URLs |-> None]

(* time passes *)
Tick ==
    /\ last = NoCall
    /\ now < MaxTime
    /\ now' = now + 1
    /\ hist' = HistAt(hist, CacheObj, now + 1)
    /\ UNCHANGED <<cache, timestamps, class_names, calls, last, web, life, probe, cacheop, more>>

(* a task calls predict(url, session) and runs to its return, its raise or  *)
(* its await of the fetch; ambient is the http_session global of the main   *)
(* module at the time of the call; the clock may advance between the two    *)
(* reads of get                                                             *)
PredictStartWith(SessionArgs) ==
    /\ last = NoCall
    /\ BagCardinality(calls) < MaxCalls
    /\ \E url \in URLs, session \in SessionArgs, ambient \in Sessions, d \in Delays :
        LET t2 == now + d
            o == predict_begin(CacheObj, ambient, url, session, now, t2)
        IN /\ t2 <= MaxTime
           /\ cache' = o.c.cache
           /\ timestamps' = o.c.timestamps
           /\ now' = t2
           /\ hist' = HistAt(hist, o.c, t2)
           /\ IF o.state = "await"
              THEN /\ calls' = calls (+) SetToBag({[url |-> url,
                                                    prior |-> FreshPrior(url, t2)]})
                   /\ UNCHANGED last
              ELSE /\ last' = Ended("predict", url, o, Prior(url, t2), None)
                   /\ UNCHANGED calls
           /\ UNCHANGED <<class_names, web, life, probe, cacheop, more>>

PredictStart == PredictStartWith(Sessions)

(* the fetch of a suspended call ends in one of Env[url] and the call runs   *)
(* to its end                                                               *)
PredictResumeIn(Env) ==
    /\ last = NoCall
    /\ \E call \in BagToSet(calls) : \E f \in Env[call.url] :
        LET url == call.url
            o == predict_resume(CacheObj, class_names, url, f.resp, f.runOk, now, now)
        IN /\ cache' = o.c.cache
           /\ timestamps' = o.c.timestamps
           /\ hist' = IF o.inserted
                      THEN HistAt(HistAfterSet(hist, CacheObj, url, o.value, now, now),
                                  o.c, now)
                      ELSE hist
           /\ calls' = calls (-) SetToBag({call})
           /\ last' = Ended("predict", url, o, call.prior, Seen(f.resp))
           /\ UNCHANGED <<now, class_names, web, life, probe, cacheop, more>>

AnyFetch == [url \in URLs |-> Fetched]

PredictResume == PredictResumeIn(AnyFetch)

(* predict_sync(url) runs from its call to its end: it blocks the thread.   *)
(* d1 is the clock's advance within get, d2 the duration of the fetch.      *)
PredictSync ==
    /\ last = NoCall
    /\ \E url \in URLs, f \in Fetched, d1 \in Delays, d2 \in Delays :
        LET tt == <<now, now + d1, now + d1 + d2, now + d1 + d2>>
            c1 == get(CacheObj, generate_cache_key(url), tt[1], tt[2]).c
            o == predict_sync(CacheObj, class_names, url, f.resp, f.runOk, tt)
            end == IF o.fetches > 0 THEN tt[3] ELSE tt[2]
        IN /\ tt[4] <= MaxTime
           /\ cache' = o.c.cache
           /\ timestamps' = o.c.timestamps
           /\ now' = end
           /\ hist' = IF o.inserted
                      THEN HistAt(HistAfterSet(hist, c1, url, o.value, tt[3], tt[4]),
                                  o.c, end)
                      ELSE HistAt(hist, o.c, end)
           /\ last' = Ended("predict_sync", url, o, Prior(url, tt[2]),
                            IF o.fetches > 0 THEN Seen(f.resp) ELSE None)
           /\ UNCHANGED <<class_names, calls, web, life, probe, cacheop, more>>

(* the caller takes the outcome of the call that ended *)
Deliver ==
    /\ last # NoCall
    /\ last' = NoCall
    /\ UNCHANGED <<cache, timestamps, now, class_names, calls, hist, web, life, probe, cacheop, more>>

Next ==
    \/ Tick
    \/ PredictStart
    \/ PredictResume
    \/ PredictSync
    \/ Deliver

Spec == Init /\ [][Next]_vars

(***************************************************************************)
(* Runs against a fixed web: every URL is served with one response (a      *)
(* status and a body) for the whole run, the model artifact runs without   *)
(* error, and predict is called with an HTTP session.                      *)
(***************************************************************************)
WebResponses ==
    {[exc |-> "", status |-> 200, body |-> "png0"],
     [exc |-> "", status |-> 200, body |-> "png2"],
     [exc |-> "", status |-> 404, body |-> "png0"]}

FixedInit == Constructed /\ web \in [URLs -> WebResponses]

WebFetch == [url \in URLs |-> {[resp |-> web[url], runOk |-> TRUE]}]

FixedStart == PredictStartWith({"ClientSession"})

FixedResume == PredictResumeIn(WebFetch)

FixedNext ==
    \/ Tick
    \/ FixedStart
    \/ FixedResume
    \/ Deliver

SpecFixedWeb == FixedInit /\ [][FixedNext]_vars

(***************************************************************************)
(* The process from the call of main() to its return (src/main.py).  The   *)
(* database is left out.  proc.phase is "main" before bot.run, "running"   *)
(* while bot.run runs the event loop, "finally" once bot.run has returned  *)
(* or raised, and "exited" when main() has returned.  The clock stands     *)
(* still and every fetch is answered 200 with an image.                    *)
(***************************************************************************)
MaxReady == 2

NotStarted ==
    [phase |-> "main", readies |-> 0, cogs |-> FALSE, handled |-> FALSE,
     predictors |-> 0, sessions |-> 0, writes |-> 0, closed |-> {},
     init_error |-> None]

BotInit ==
    /\ cache = <<>>
    /\ timestamps = <<>>
    /\ now = 0
    /\ class_names \in LabelTables
    /\ calls = EmptyBag
    /\ last = NoCall
    /\ hist = [u \in URLs |-> None]
    /\ web = [u \in URLs |-> None]
    /\ fs \in FileSystems
    /\ predictor = None
    /\ http_session = None
    /\ proc = NotStarted
    /\ probe = NoProbe
    /\ cacheop = NoOp
    /\ loop = NoLoop
    /\ lab = NoLab
    /\ spawn = NoSpawn

(* main() with TOKEN unset: prints the error and returns *)
NoToken ==
    /\ proc.phase = "main"
    /\ proc' = [proc EXCEPT !.phase = "exited"]
    /\ UNCHANGED <<cache, timestamps, now, class_names, calls, last, hist, web,
                   fs, predictor, http_session, probe, cacheop, more>>

(* bot.run(TOKEN) logs in and runs the event loop *)
BotRun ==
    /\ proc.phase = "main"
    /\ proc' = [proc EXCEPT !.phase = "running"]
    /\ UNCHANGED <<cache, timestamps, now, class_names, calls, last, hist, web,
                   fs, predictor, http_session, probe, cacheop, more>>

(* bot.run(TOKEN) raises (discord.LoginFailure or another exception) before *)
(* any event, or returns or raises later                                    *)
BotRunEnds ==
    /\ proc.phase \in {"main", "running"}
    /\ proc' = [proc EXCEPT !.phase = "finally"]
    /\ UNCHANGED <<cache, timestamps, now, class_names, calls, last, hist, web,
                   fs, predictor, http_session, probe, cacheop, more>>

(* initialize_http_session leaving the global as None *)
initialize_http_sessionMutSkip(created) == None

(* initialize_http_session: http_session = aiohttp.ClientSession(...), a    *)
(* new session whatever the global held; created is the number of sessions  *)
(* created before                                                           *)
initialize_http_session(created) == Ref(created + 1)

(* on_ready: initialize_http_session(), initialize_predictor(), then the    *)
(* cogs are loaded (load_extension raises on a cog already loaded, which    *)
(* is printed).  A new Prediction comes with a new, empty PredictionCache.  *)
OnReady ==
    /\ proc.phase = "running"
    /\ proc.readies < MaxReady
    /\ LET i == initialize_predictor(predictor, fs, class_names) IN
        /\ http_session' = initialize_http_session(proc.sessions)
        /\ predictor' = i.predictor
        /\ fs' = i.fs
        /\ proc' = [proc EXCEPT !.readies = @ + 1,
                                !.cogs = TRUE,
                                !.sessions = @ + 1,
                                !.predictors = IF i.ok THEN @ + 1 ELSE @,
                                !.writes = IF i.wrote THEN @ + 1 ELSE @,
                                !.init_error = i.error]
        /\ cache' = IF i.ok THEN <<>> ELSE cache
        /\ timestamps' = IF i.ok THEN <<>> ELSE timestamps
        /\ hist' = IF i.ok THEN [u \in URLs |-> None] ELSE hist
    /\ UNCHANGED <<now, class_names, calls, last, web, probe, cacheop, more>>

(* the on_message listener of the General cog on a spawn message with an    *)
(* image: returns when the predictor global is None, else awaits            *)
(* predictor.predict(image_url, http_session)                               *)
OnMessage ==
    /\ proc.phase = "running"
    /\ proc.cogs
    /\ \E url \in URLs, body \in {b \in Bodies : Decodable(b)} :
        LET session == IF http_session = None THEN "None" ELSE "ClientSession"
            resp == [exc |-> "", status |-> 200, body |-> body]
            o == predict(CacheObj, session, predictor[1].class_names, url, session,
                         resp, TRUE, <<now, now, now, now>>)
        IN /\ proc' = [proc EXCEPT !.handled = TRUE]
           /\ IF predictor = None
              THEN UNCHANGED <<cache, timestamps, hist>>
              ELSE /\ cache' = o.c.cache
                   /\ timestamps' = o.c.timestamps
                   /\ hist' = IF o.inserted
                              THEN HistAfterSet(hist, CacheObj, url, o.value, now, now)
                              ELSE hist
    /\ UNCHANGED <<now, class_names, calls, last, web, fs, predictor, http_session, probe, cacheop, more>>

(* cleanup(): closes the session the http_session global refers to *)
cleanup(session, closed) ==
    IF session # None THEN closed \cup {session[1]} ELSE closed

(* the finally block of main(): asyncio.get_event_loop() and                *)
(* loop.run_until_complete(cleanup()) inside try / bare except / pass, so   *)
(* when either raises (loopOk false) cleanup does not run and nothing is    *)
(* reported                                                                 *)
Finally ==
    /\ proc.phase = "finally"
    /\ \E loopOk \in BOOLEAN :
        proc' = [proc EXCEPT !.phase = "exited",
                             !.closed = IF loopOk THEN cleanup(http_session, @) ELSE @]
    /\ UNCHANGED <<cache, timestamps, now, class_names, calls, last, hist, web,
                   fs, predictor, http_session, probe, cacheop, more>>

BotNext ==
    \/ NoToken
    \/ BotRun
    \/ BotRunEnds
    \/ OnReady
    \/ OnMessage
    \/ Finally

SpecBot == BotInit /\ [][BotNext]_vars

(***************************************************************************)
(* The post-processing of predict (lines 186-195) on every vector of three *)
(* integer logits between -MaxLogit and MaxLogit.                          *)
(***************************************************************************)
MaxLogit == 3

LogitVectors == [1..3 -> (-MaxLogit)..MaxLogit]

PostInit ==
    /\ cache = <<>>
    /\ timestamps = <<>>
    /\ now = 0
    /\ class_names \in LabelTables
    /\ calls = EmptyBag
    /\ last = NoCall
    /\ hist = [u \in URLs |-> None]
    /\ web = [u \in URLs |-> None]
    /\ fs = Installed
    /\ predictor = Ref(Prediction_init(Installed, class_names).self)
    /\ http_session = Ref(1)
    /\ proc = Started
    /\ probe \in {[logits |-> l, result |-> None] : l \in LogitVectors}
    /\ cacheop = NoOp
    /\ loop = NoLoop
    /\ lab = NoLab
    /\ spawn = NoSpawn

(* logits = outputs[0][0] ... result = (name, confidence) *)
Postprocess ==
    /\ probe.result = None
    /\ probe' = [probe EXCEPT !.result = format_result(class_names, probe.logits)]
    /\ UNCHANGED <<cache, timestamps, now, class_names, calls, last, hist, web, life,
                   cacheop, more>>

PostNext == Postprocess

SpecPost == PostInit /\ [][PostNext]_vars

(***************************************************************************)
(* The cache used directly: get and set on the key of a URL, and the       *)
(* passing of time.  The clock may advance between the two reads that a    *)
(* get or a set makes of it.                                               *)
(***************************************************************************)
Pairs == {ResultTable[n][l] : n \in LabelTables, l \in {Logits(Tensor(b)) : b \in {"png0", "png2"}}}

CacheInit ==
    /\ cache = <<>>
    /\ timestamps = <<>>
    /\ now = 0
    /\ class_names \in LabelTables
    /\ calls = EmptyBag
    /\ last = NoCall
    /\ hist = [u \in URLs |-> None]
    /\ web = [u \in URLs |-> None]
    /\ fs = Installed
    /\ predictor = Ref(Prediction_init(Installed, class_names).self)
    /\ http_session = Ref(1)
    /\ proc = Started
    /\ probe = NoProbe
    /\ cacheop = NoOp
    /\ loop = NoLoop
    /\ lab = NoLab
    /\ spawn = NoSpawn

(* time passes *)
CacheTick ==
    /\ now < MaxTime
    /\ now' = now + 1
    /\ hist' = HistAt(hist, CacheObj, now + 1)
    /\ UNCHANGED <<cache, timestamps, class_names, calls, last, web, life, probe,
                   cacheop, more>>

(* self.cache.get(self._generate_cache_key(url)) *)
CacheGet ==
    \E url \in URLs, d \in Delays :
        LET t2 == now + d
            g == get(CacheObj, generate_cache_key(url), now, t2)
        IN /\ t2 <= MaxTime
           /\ cache' = g.c.cache
           /\ timestamps' = g.c.timestamps
           /\ now' = t2
           /\ hist' = HistAt(hist, g.c, t2)
           /\ cacheop' = [name |-> "get", url |-> url, value |-> None,
                          result |-> g.value, before |-> CacheObj,
                          t1 |-> now, t2 |-> t2]
           /\ UNCHANGED <<class_names, calls, last, web, life, probe, more>>

(* self.cache.set(self._generate_cache_key(url), value) *)
CacheSet ==
    \E url \in URLs, value \in Pairs, d \in Delays :
        LET t2 == now + d
            c == set(CacheObj, generate_cache_key(url), value, now, t2)
        IN /\ t2 <= MaxTime
           /\ cache' = c.cache
           /\ timestamps' = c.timestamps
           /\ now' = t2
           /\ hist' = HistAt(HistAfterSet(hist, CacheObj, url, value, now, t2), c, t2)
           /\ cacheop' = [name |-> "set", url |-> url, value |-> value,
                          result |-> None, before |-> CacheObj,
                          t1 |-> now, t2 |-> t2]
           /\ UNCHANGED <<class_names, calls, last, web, life, probe, more>>

CacheNext ==
    \/ CacheTick
    \/ CacheGet
    \/ CacheSet

SpecCache == CacheInit /\ [][CacheNext]_vars

(***************************************************************************)
(* Properties.                                                             *)
(***************************************************************************)
KeyOfLast == generate_cache_key(last.url)

(* the call that ended was answered from the cache *)
Hit(l) == l.state = "return" /\ l.fetches = 0 /\ l.infers = 0

(* C1: a predict call for a URL whose last insert (by an earlier call that  *)
(* returned the pair it stored) is at most ttl_seconds old at the lookup    *)
(* and was not evicted since returns that stored pair, and makes no fetch   *)
(* and no inference run; no such call is ever suspended in a fetch.         *)
C1_CacheHitWithinTTL ==
    /\ (last.op = "predict" /\ last.prior # None /\ last.prior[2] <= ttl_seconds)
          => /\ Hit(last)
             /\ last.value = last.prior[1]
             /\ last.resp = None
             /\ ~last.inserted
    /\ \A call \in BagToSet(calls) : call.prior = None

(* a predict call answered "97.56%" from an entry exactly ttl_seconds old *)
C1_Witness ==
    /\ last.op = "predict"
    /\ last.prior # None
    /\ last.prior[2] = ttl_seconds
    /\ Hit(last)
    /\ last.value = <<"Pikachu", "97.56%">>

(* C2 as stated: a lookup at any time t >= T + ttl_seconds of an entry      *)
(* inserted at T is a miss (the boundary t = T + ttl_seconds included).     *)
C2_MissFromTTL ==
    (last.op # "none" /\ last.prior # None /\ last.prior[2] >= ttl_seconds)
        => ~Hit(last)

(* C2 amended: a lookup at any time t > T + ttl_seconds of an entry         *)
(* inserted at T is a miss: the call is not answered from the cache, and    *)
(* predict_sync goes on to fetch.                                           *)
C2_MissAfterTTL ==
    (last.op # "none" /\ last.prior # None /\ last.prior[2] > ttl_seconds)
        => /\ ~Hit(last)
           /\ last.stage # "cache"
           /\ (last.op = "predict_sync" => last.fetches = 1)

(* a call two seconds after the insert recomputed and returned *)
C2_Witness ==
    /\ last.op = "predict_sync"
    /\ last.prior # None
    /\ last.prior[2] > ttl_seconds
    /\ last.state = "return"
    /\ last.fetches = 1
    /\ last.inserted

(* C3: the cache never holds more than max_size entries, and right after a  *)
(* call's set(key, value) the key is in the cache with that value (the      *)
(* capacity eviction did not remove the entry just inserted).               *)
C3_SizeBound ==
    /\ Cardinality(DOMAIN cache) <= max_size
    /\ last.inserted => /\ KeyOfLast \in DOMAIN cache
                        /\ cache[KeyOfLast] = last.value
                        /\ KeyOfLast \in TsKeys(timestamps)

(* a set on a full cache evicted another key and kept the new entry *)
C3_Witness ==
    /\ last.inserted
    /\ last.evicted # {}
    /\ KeyOfLast \notin last.evicted
    /\ Cardinality(DOMAIN cache) = max_size
    /\ cache[KeyOfLast] = last.value

(* every entry of the cache after the step was there before it, unchanged *)
NothingInserted ==
    /\ \A k \in DOMAIN cache' : k \in DOMAIN cache /\ cache'[k] = cache[k]
    /\ \A i \in DOMAIN timestamps' :
           \E j \in DOMAIN timestamps : timestamps'[i] = timestamps[j]

(* C4: a step in which a call ends in failure inserts nothing into the      *)
(* cache; when the call ran without suspension (predict_sync, or predict    *)
(* failing for want of a session) the URL's key is absent afterwards, so    *)
(* the next lookup of it is a miss.  No step other than the end of a call   *)
(* that returns a computed pair inserts anything.                           *)
C4_NoNegativeCaching ==
    [][/\ (last'.state = "raise" /\ last.state = "none")
            => /\ NothingInserted
               /\ ~last'.inserted
               /\ (last'.op = "predict_sync" \/ last'.fetches = 0)
                     => generate_cache_key(last'.url) \notin DOMAIN cache'
       /\ ~last'.inserted => NothingInserted]_vars

(* predict got a 404, raised, and left no entry for the URL *)
C4_Witness ==
    /\ last.op = "predict"
    /\ last.state = "raise"
    /\ last.resp = <<"", 404>>
    /\ KeyOfLast \notin DOMAIN cache

DigitStr(i) == <<"0", "1", "2", "3", "4", "5", "6", "7">>[i + 1]

FiveLabels == <<"Abra", "Bulbasaur", "Charmander", "Ditto", "Eevee">>

(* C5: a call that ran inference with arg-max index i returned the label    *)
(* class_names[i] when i < len(class_names) and "unknown_<i>" otherwise,    *)
(* with a confidence, and the pair is in the cache; for a table of five     *)
(* labels every index below 5 gives its label and 5, 6, 7 give "unknown_5", *)
(* "unknown_6", "unknown_7".                                                *)
C5_LabelFallback ==
    /\ last.pred_idx >= 0
          => /\ last.state = "return"
             /\ Len(last.value) = 2
             /\ last.value[1] = IF last.pred_idx < Len(class_names)
                                THEN class_names[last.pred_idx + 1]
                                ELSE "unknown_" \o DigitStr(last.pred_idx)
             /\ last.value[2] \in {"97.56%", "78.70%"}
             /\ KeyOfLast \in DOMAIN cache
             /\ cache[KeyOfLast] = last.value
    /\ (last.infers = 1 /\ last.state = "return") => last.pred_idx >= 0
    /\ \A i \in 0..7 :
           LabelOf(FiveLabels, i) =
               IF i < 5 THEN FiveLabels[i + 1] ELSE "unknown_" \o DigitStr(i)

(* the arg-max index 2 on a table of two labels gave "unknown_2", cached *)
C5_Witness ==
    /\ last.pred_idx = 2
    /\ Len(class_names) = 2
    /\ last.state = "return"
    /\ last.value = <<"unknown_2", "78.70%">>
    /\ cache[KeyOfLast] = last.value

FetchErrorKinds(op) ==
    {(IF op = "predict" THEN preprocess_image_from_url(r)
                        ELSE sync_fetch_and_decode(r)).error[1] :
        r \in {q \in Responses : q.exc # ""}}

(* C7 as stated: a call that failed decoding the image raised an error of   *)
(* a kind that no fetch failure of the same entry point raises.             *)
C7_DistinctErrorKinds ==
    (last.state = "raise" /\ last.stage = "decode")
        => last.error[1] \notin FetchErrorKinds(last.op)

(* C8 as stated: the fetch of predict failed exactly when a network         *)
(* exception occurred or the status was outside 200..299.                   *)
C8_FetchFailsIffNot2xx ==
    (last.op = "predict" /\ last.resp # None)
        => (last.stage = "fetch"
               <=> (last.resp[1] # "" \/ last.resp[2] < 200 \/ last.resp[2] > 299))

(* C8 amended: the fetch of predict failed exactly when a network exception *)
(* occurred or the status was not 200 (every other status, the other 2xx    *)
(* included, is a fetch failure); a failed fetch, a timeout included, ends  *)
(* the call in an ordinary ValueError; status 200 goes on to decoding.      *)
C8_FetchFailsIffNot200 ==
    (last.op = "predict" /\ last.resp # None)
        => /\ last.stage = "fetch" <=> (last.resp[1] # "" \/ last.resp[2] # 200)
           /\ last.stage = "fetch"
                 => /\ last.state = "raise"
                    /\ last.error = <<"ValueError", "Failed to load image from URL">>
           /\ last.stage # "fetch" => last.stage \in {"decode", "inference", "done"}

(* a 206 response and a timeout each ended predict in the fetch failure *)
C8_Witness ==
    /\ last.op = "predict"
    /\ last.stage = "fetch"
    /\ last.resp \in {<<"", 206>>, <<"TimeoutError", 0>>}

(* C9 as stated: every predict_sync call that got an HTTP response ends    *)
(* as predict ends from the same cache on the same response (status and     *)
(* body): the same pair or both in failure, and the same cache afterwards.  *)
C9_EntryPointsAgree ==
    [][(last.state = "none" /\ last'.op = "predict_sync"
          /\ last'.resp # None /\ last'.resp[1] = "")
        => \E f \in Fetched, d1 \in Delays, d2 \in Delays :
              LET tt == <<now, now + d1, now + d1 + d2, now + d1 + d2>>
                  a == predict(CacheObj, "ClientSession", class_names, last'.url,
                               "ClientSession", f.resp, f.runOk, tt)
              IN /\ Seen(f.resp) = last'.resp
                 /\ a.state = last'.state
                 /\ a.value = last'.value
                 /\ a.c.cache = cache'
                 /\ a.c.timestamps = timestamps']_vars

(* what predict computes for the URL on an empty cache *)
Fresh(url) ==
    predict(EmptyCache, "ClientSession", class_names, url, "ClientSession",
            web[url], TRUE, <<0, 0, 0, 0>>)

C11_KeyIsExactURL ==
    /\ \A u1 \in URLs, u2 \in URLs :
           u1 # u2 => generate_cache_key(u1) # generate_cache_key(u2)
    /\ \A u \in URLs :
           generate_cache_key(u) \in DOMAIN cache =>
               /\ hist[u] # None
               /\ cache[generate_cache_key(u)] = hist[u][1]
    /\ Hit(last) => /\ last.prior # None
                    /\ last.value = last.prior[1]

(* a call answered from the cache while the cache holds, under the key of   *)
(* a URL differing in query order or a trailing slash, a different pair     *)
C11_Witness ==
    /\ Hit(last)
    /\ \E u \in URLs \ {last.url} :
           /\ generate_cache_key(u) \in DOMAIN cache
           /\ cache[generate_cache_key(u)] # last.value

(* a Prediction object with its label table, its cache and its inference session *)
Complete(self) ==
    /\ self.class_names # None
    /\ self.cache # None
    /\ self.ort_session # None

(* the installations of C12: the model artifact is missing, or the labels   *)
(* file and the reference-image directory are both missing, or the labels   *)
(* file is JSON of another shape than list or mapping                       *)
CannotConstruct(f) ==
    \/ ~f.onnx
    \/ f.labels = "absent" /\ ~f.save_path
    \/ f.labels = "other"

(* C12: construction is all-or-nothing.  The predictor global never refers  *)
(* to a Prediction lacking its label table, its cache or its inference      *)
(* session; on an installation that cannot be constructed from, every       *)
(* construction raised and the global is still None.                        *)
C12_AllOrNothing ==
    /\ predictor # None => Complete(predictor[1])
    /\ CannotConstruct(fs) => predictor = None
    /\ CannotConstruct(fs) /\ proc.readies >= 1 => proc.init_error # None

(* the ready event was handled with the labels file present and the model   *)
(* artifact missing: construction raised after the label table and the      *)
(* cache were assigned                                                      *)
C12_Witness ==
    /\ proc.readies >= 1
    /\ ~fs.onnx
    /\ fs.labels = "list"
    /\ Prediction_init(fs, class_names).self.cache # None
    /\ proc.init_error = <<"NoSuchFile", "Load model failed">>
    /\ predictor = None

(* C13: with neither the labels file nor the reference-image directory the  *)
(* process does not start: once the construction of the predictor has       *)
(* failed, no cog is loaded and no message is handled.                      *)
C13_NoStartWithoutLabels ==
    fs.labels = "absent" /\ ~fs.save_path /\ proc.readies >= 1 =>
        ~proc.cogs /\ ~proc.handled

(* C14: at most one HTTP session and at most one Prediction are created     *)
(* while the process runs.                                                  *)
C14_CreatedOnce == proc.sessions <= 1 /\ proc.predictors <= 1

(* C15: when main() has returned, every HTTP session created has been       *)
(* closed.                                                                  *)
C15_SessionsClosedAtExit ==
    proc.phase = "exited" => \A i \in 1..proc.sessions : i \in proc.closed

Digits == {"0", "1", "2", "3", "4", "5", "6", "7", "8", "9"}

DigitValue(ch) == CHOOSE d \in 0..9 : ToString(d) = ch

(* one or more digits, a dot, exactly two digits, a percent sign *)
IsConfidenceString(s) ==
    LET n == Len(s) IN
    /\ n >= 5
    /\ SubSeq(s, n, n) = "%"
    /\ SubSeq(s, n - 1, n - 1) \in Digits
    /\ SubSeq(s, n - 2, n - 2) \in Digits
    /\ SubSeq(s, n - 3, n - 3) = "."
    /\ \A i \in 1..(n - 4) : SubSeq(s, i, i) \in Digits

RECURSIVE ParseDigits(_, _)
ParseDigits(s, k) ==
    IF k = 0 THEN 0 ELSE 10 * ParseDigits(s, k - 1) + DigitValue(SubSeq(s, k, k))

(* the numeric part of a confidence string, in hundredths *)
Hundredths(s) ==
    LET n == Len(s) IN
    100 * ParseDigits(s, n - 4)
        + 10 * DigitValue(SubSeq(s, n - 2, n - 2)) + DigitValue(SubSeq(s, n - 1, n - 1))

(* C16: for every logits vector the confidence of the pair is one or more   *)
(* digits, a dot, two digits and "%", and its numeric part lies in          *)
(* [0, 100].                                                                *)
C16_ConfidenceFormat ==
    probe.result # None =>
        /\ IsConfidenceString(probe.result[2])
        /\ Hundredths(probe.result[2]) >= 0
        /\ Hundredths(probe.result[2]) <= 10000

(* a vector with one dominant logit gives "99.51%", three equal logits give *)
(* "33.33%"                                                                 *)
C16_Witness ==
    /\ probe.result # None
    /\ \/ probe.logits = <<3, -3, -3>> /\ probe.result[2] = "99.51%"
       \/ probe.logits = <<0, 0, 0>> /\ probe.result[2] = "33.33%"

(* C17: the confidence is the softmax probability, over the whole vector    *)
(* after subtracting the largest logit, at the arg-max index, whose label   *)
(* is the one returned: the index holds the largest logit, its probability  *)
(* is the largest of all, the probabilities add up to one, the probability  *)
(* is at least 1/n and the confidence is its percentage, not the logit.     *)
C17_SoftmaxAtArgmax ==
    probe.result # None =>
        LET l == probe.logits
            n == Len(l)
            idx == argmax(l)
            p == softmax(l)
        IN /\ l[idx + 1] = Max(l)
           /\ \A i \in 1..n : l[i] <= l[idx + 1]
           /\ \A i \in 1..n : p[i][2] = p[idx + 1][2] /\ p[i][1] <= p[idx + 1][1]
           /\ \A i \in 1..n, j \in 1..n : l[i] <= l[j] => p[i][1] <= p[j][1]
           /\ Sum([i \in 1..n |-> p[i][1]]) = p[idx + 1][2]
           /\ p[idx + 1][1] = 100000
           /\ n * p[idx + 1][1] >= p[idx + 1][2]
           /\ probe.result[1] = LabelOf(class_names, idx)
           /\ probe.result[2] = FormatConfidence(p[idx + 1])
           /\ Hundredths(probe.result[2]) >= 10000 \div n
           /\ 2 * 10000 * p[idx + 1][1] - 2 * p[idx + 1][2] * Hundredths(probe.result[2])
                 \in (-p[idx + 1][2])..p[idx + 1][2]

(* the largest logit is at index 1 (of 0..2) and its confidence "57.61%" is *)
(* neither the logit 1 nor that of index 0                                  *)
C17_Witness ==
    /\ probe.logits = <<0, 1, 0>>
    /\ probe.result = <<"Charmander", "57.61%">>

(* the key a direct cache operation was made on *)
OpKey == generate_cache_key(cacheop.url)

(* the keys of cache object c whose age at time t is at most the TTL *)
Live(c, t) == {k \in DOMAIN c.cache : t - TsOf(c.timestamps, k) <= ttl_seconds}

(* what a get at clocks t1, t2 must return from cache object c *)
Lookup(c, key, t2) ==
    IF key \in DOMAIN c.cache /\ t2 - TsOf(c.timestamps, key) <= ttl_seconds
    THEN c.cache[key] ELSE None

(* C18 as stated: right after a get has returned, no entry of any key older *)
(* than the TTL is left in the cache, and the get returned the stored value *)
(* exactly when the key was present and not expired.                        *)
C18_SweptAtReturn ==
    cacheop.name = "get" =>
        /\ \A i \in DOMAIN timestamps : now - timestamps[i][2] <= ttl_seconds
        /\ cacheop.result = Lookup(cacheop.before, OpKey, cacheop.t2)

(* C18 amended: a get sweeps the whole cache as of the clock read by the    *)
(* sweep: after it, the entries left are those whose age at that read was   *)
(* at most the TTL, less the entry of the key itself when its age at get's  *)
(* own later clock read exceeds the TTL; the get returns the stored value   *)
(* exactly when the key is present with an age of at most the TTL at that   *)
(* later read, and a miss otherwise.                                        *)
C18_SweptAtSweep ==
    cacheop.name = "get" =>
        LET b == cacheop.before IN
        /\ \A i \in DOMAIN timestamps : cacheop.t1 - timestamps[i][2] <= ttl_seconds
        /\ DOMAIN cache =
              Live(b, cacheop.t1) \ (IF Lookup(b, OpKey, cacheop.t2) = None
                                     THEN {OpKey} ELSE {})
        /\ TsKeys(timestamps) = DOMAIN cache
        /\ cacheop.result = Lookup(b, OpKey, cacheop.t2)

(* a get of one key swept the expired entry of another key *)
C18_Witness ==
    /\ cacheop.name = "get"
    /\ \E k \in DOMAIN cacheop.before.cache :
           /\ k # OpKey
           /\ k \notin DOMAIN cache
    /\ cacheop.result # None

(* the entries, other than that of the key set, live at the sweep of a set  *)
(* and gone after it                                                        *)
Victims == (Live(cacheop.before, cacheop.t1) \ {OpKey}) \ DOMAIN cache

(* the smallest timestamp among the entries live at the sweep *)
MinLiveTs ==
    LET b == cacheop.before
        T == {TsOf(b.timestamps, k) : k \in Live(b, cacheop.t1)}
    IN CHOOSE m \in T : \A x \in T : m <= x

(* C19: a set removes the expired entries; then, only when max_size or more *)
(* entries are left, exactly one further entry, of the smallest timestamp   *)
(* among those left (it may be the entry of the key set itself); then the   *)
(* key maps to the value with the current time as its timestamp.  Every     *)
(* other entry that had not expired is kept with its value and timestamp.   *)
C19_SetEvictsOldest ==
    cacheop.name = "set" =>
        LET b == cacheop.before
            live == Live(b, cacheop.t1)
        IN /\ OpKey \in DOMAIN cache
           /\ cache[OpKey] = cacheop.value
           /\ TsOf(timestamps, OpKey) = cacheop.t2
           /\ TsKeys(timestamps) = DOMAIN cache
           /\ Len(timestamps) = Cardinality(DOMAIN cache)
           /\ DOMAIN cache \subseteq live \cup {OpKey}
           /\ \A k \in DOMAIN cache \ {OpKey} :
                  /\ cache[k] = b.cache[k]
                  /\ TsOf(timestamps, k) = TsOf(b.timestamps, k)
           /\ Cardinality(live) < max_size => Victims = {}
           /\ Cardinality(live) >= max_size =>
                  /\ Cardinality(Victims) <= 1
                  /\ \A k \in Victims : TsOf(b.timestamps, k) = MinLiveTs
                  /\ Victims = {} =>
                         OpKey \in live /\ TsOf(b.timestamps, OpKey) = MinLiveTs

(* a set of a new key on a full cache removed the one oldest entry and kept *)
(* the other                                                                *)
C19_Witness ==
    /\ cacheop.name = "set"
    /\ OpKey \notin DOMAIN cacheop.before.cache
    /\ Cardinality(Live(cacheop.before, cacheop.t1)) = max_size
    /\ Cardinality(Victims) = 1
    /\ Cardinality(DOMAIN cache) = max_size
    /\ \E k \in Victims, j \in DOMAIN cache \ {OpKey} :
           TsOf(cacheop.before.timestamps, k) < TsOf(timestamps, j)

(* C20: a get, hit or miss, leaves every entry it keeps with its value, its *)
(* timestamp and its place, and keeps every entry that has not expired; so  *)
(* the timestamp of an entry is always the time of its last set, however    *)
(* often it was read since.                                                 *)
C20_GetKeepsTimestamps ==
    /\ cacheop.name = "get" =>
           LET b == cacheop.before IN
           /\ \A k \in DOMAIN cache :
                  /\ k \in DOMAIN b.cache
                  /\ cache[k] = b.cache[k]
                  /\ TsOf(timestamps, k) = TsOf(b.timestamps, k)
           /\ Live(b, cacheop.t2) \subseteq DOMAIN cache
           /\ timestamps = SelectSeq(b.timestamps, LAMBDA e : e[1] \in DOMAIN cache)
    /\ \A u \in URLs :
           generate_cache_key(u) \in DOMAIN cache =>
               /\ hist[u] # None
               /\ TsOf(timestamps, generate_cache_key(u)) = hist[u][2]
               /\ cache[generate_cache_key(u)] = hist[u][1]

(* an entry was read after a newer entry was inserted and is still the      *)
(* oldest, the one the next full set evicts                                 *)
C20_Witness ==
    /\ cacheop.name = "get"
    /\ cacheop.result # None
    /\ cacheop.t2 > TsOf(timestamps, OpKey)
    /\ \E k \in DOMAIN cache : TsOf(timestamps, k) > TsOf(timestamps, OpKey)
    /\ Cardinality(DOMAIN cache) = max_size
    /\ oldest_key(timestamps) = OpKey

(***************************************************************************)
(* Concurrent predict calls on one event loop, statement by statement.     *)
(* loop.tasks holds the predict coroutines; loop.running is the coroutine  *)
(* the loop is executing (0 when it is between callbacks); loop.last is    *)
(* the coroutine whose cache.set returned most recently.  A coroutine's pc *)
(* names the statement it executes next:                                   *)
(*   get_cleanup       self._cleanup_expired() of get                      *)
(*   get_lookup        the rest of get, and predict up to its await        *)
(*   fetch             suspended in await preprocess_image_from_url(...)   *)
(*   infer             self.ort_session.run and the formatting             *)
(*   set_cleanup       self._cleanup_expired() of set                      *)
(*   set_evict         the capacity test and self.cache.pop(oldest_key)    *)
(*   set_evict_stamp   self.timestamps.pop(oldest_key)                     *)
(*   set_value         self.cache[key] = value                             *)
(*   set_stamp         self.timestamps[key] = time.time(), and the return  *)
(*   done              returned or raised; the caller has not yet resumed  *)
(* predict is called with an HTTP session.                                 *)
(***************************************************************************)
MaxTasks == 2

Tasks == 1..MaxTasks

IdleTask ==
    [pc |-> "idle", url |-> "", image |-> None, runOk |-> TRUE, value |-> None,
     state |-> "none", stage |-> "none", fetches |-> 0, infers |-> 0,
     inserted |-> FALSE, evicted |-> {}, overlap |-> FALSE]

(* a coroutine that also gives up the loop between the eviction and the     *)
(* insert of set                                                            *)
SuspendsMutInSet(pc) == pc \in {"fetch", "set_value"}

(* the statements at which a predict coroutine gives up the event loop: the *)
(* one await of predict                                                     *)
Suspends(pc) == pc = "fetch"

(* the coroutine the loop executes once task t has moved to pc *)
Running(t, pc) == IF Suspends(pc) \/ pc = "done" THEN 0 ELSE t

(* task t may execute its next statement: the loop is executing it, or the  *)
(* loop is free and t is suspended                                          *)
CanRun(t) ==
    \/ loop.running = t
    \/ loop.running = 0 /\ Suspends(loop.tasks[t].pc)

(* self.cache[key] = value keeping the value of a key already present *)
StoreMutKeepFirst(d, key, value) ==
    [k \in (DOMAIN d) \cup {key} |-> IF k \in DOMAIN d THEN d[k] ELSE value]

(* self.cache[key] = value *)
Store(d, key, value) ==
    [k \in (DOMAIN d) \cup {key} |-> IF k = key THEN value ELSE d[k]]

(* lines 39-47 of get, after the sweep: the value, or None with the entry   *)
(* popped when the key's own age exceeds the TTL                            *)
get_lookup(c, key, t2) ==
    IF key \in DOMAIN c.cache
    THEN IF t2 - TsOf(c.timestamps, key) <= ttl_seconds
         THEN [c |-> c, value |-> c.cache[key]]
         ELSE [c |-> Pop(c, {key}), value |-> None]
    ELSE [c |-> c, value |-> None]

(* a failed fetch or decoding answered by fetching once more *)
fetch_failedMutRetry(r, p) ==
    IF r.fetches = 0
    THEN [r EXCEPT !.pc = "fetch", !.fetches = @ + 1]
    ELSE [r EXCEPT !.pc = "done", !.state = "raise", !.stage = p.stage,
                   !.fetches = @ + 1]

(* the ValueError of a failed fetch or decoding leaves predict: coroutine r *)
(* ends raising it                                                          *)
fetch_failed(r, p) ==
    [r EXCEPT !.pc = "done", !.state = "raise", !.stage = p.stage, !.fetches = @ + 1]

(* the loop after task t has executed a statement and become r *)
Moved(t, r) == [loop EXCEPT !.running = Running(t, r.pc), !.tasks[t] = r]

LoopInit ==
    /\ cache = <<>>
    /\ timestamps = <<>>
    /\ now = 0
    /\ class_names \in LabelTables
    /\ calls = EmptyBag
    /\ last = NoCall
    /\ hist = [u \in URLs |-> None]
    /\ web = [u \in URLs |-> None]
    /\ fs = Installed
    /\ predictor = Ref(Prediction_init(Installed, class_names).self)
    /\ http_session = Ref(1)
    /\ proc = Started
    /\ probe = NoProbe
    /\ cacheop = NoOp
    /\ loop = [running |-> 0, last |-> 0, tasks |-> [t \in Tasks |-> IdleTask]]
    /\ lab = NoLab
    /\ spawn = NoSpawn

(* time passes, whatever the loop is doing *)
LoopTick ==
    /\ now < MaxTime
    /\ now' = now + 1
    /\ UNCHANGED <<cache, timestamps, class_names, calls, last, hist, web, life, probe,
                   cacheop, more>>

(* the loop starts a coroutine predict(url, session) *)
LoopCall ==
    \E t \in Tasks, url \in URLs :
        /\ loop.running = 0
        /\ loop.tasks[t].pc = "idle"
        /\ loop' = Moved(t, [IdleTask EXCEPT !.pc = "get_cleanup", !.url = url])
        /\ UNCHANGED <<cache, timestamps, now, class_names, calls, last, hist, web, life,
                       probe, cacheop, lab, spawn>>

(* self._cleanup_expired() as the first statement of get *)
GetCleanup ==
    \E t \in Tasks :
        /\ loop.tasks[t].pc = "get_cleanup"
        /\ CanRun(t)
        /\ LET c == cleanup_expired(CacheObj, now) IN
            /\ cache' = c.cache
            /\ timestamps' = c.timestamps
        /\ loop' = Moved(t, [loop.tasks[t] EXCEPT !.pc = "get_lookup"])
        /\ UNCHANGED <<now, class_names, calls, last, hist, web, life, probe, cacheop,
                       lab, spawn>>

(* the lookup of get; predict returns the cached pair or goes on to await   *)
(* the fetch                                                                *)
GetLookup ==
    \E t \in Tasks :
        /\ loop.tasks[t].pc = "get_lookup"
        /\ CanRun(t)
        /\ LET g == get_lookup(CacheObj, generate_cache_key(loop.tasks[t].url), now) IN
            /\ cache' = g.c.cache
            /\ timestamps' = g.c.timestamps
            /\ loop' = Moved(t, IF Truthy(g.value)
                                THEN [loop.tasks[t] EXCEPT !.pc = "done",
                                                           !.state = "return",
                                                           !.stage = "cache",
                                                           !.value = g.value]
                                ELSE [loop.tasks[t] EXCEPT !.pc = "fetch"])
        /\ UNCHANGED <<now, class_names, calls, last, hist, web, life, probe, cacheop,
                       lab, spawn>>

(* the fetch ends and the coroutine is resumed: the status test and the     *)
(* decoding of the body                                                     *)
FetchDone ==
    \E t \in Tasks, f \in Fetched :
        /\ loop.tasks[t].pc = "fetch"
        /\ CanRun(t)
        /\ LET p == preprocess_image_from_url(f.resp) IN
            loop' = Moved(t, IF p.ok
                             THEN [loop.tasks[t] EXCEPT !.pc = "infer",
                                                        !.image = p.image,
                                                        !.runOk = f.runOk,
                                                        !.fetches = @ + 1]
                             ELSE fetch_failed(loop.tasks[t], p))
        /\ UNCHANGED <<cache, timestamps, now, class_names, calls, last, hist, web, life,
                       probe, cacheop, lab, spawn>>

(* self.ort_session.run, arg-max, softmax and the formatting of the pair *)
Infer ==
    \E t \in Tasks :
        /\ loop.tasks[t].pc = "infer"
        /\ CanRun(t)
        /\ LET r == ort_run(loop.tasks[t].image, loop.tasks[t].runOk) IN
            loop' = Moved(t, IF r.ok
                             THEN [loop.tasks[t] EXCEPT !.pc = "set_cleanup",
                                                        !.image = None,
                                                        !.value = ResultTable[class_names][r.logits],
                                                        !.infers = @ + 1]
                             ELSE [loop.tasks[t] EXCEPT !.pc = "done",
                                                        !.image = None,
                                                        !.runOk = TRUE,
                                                        !.state = "raise",
                                                        !.stage = "inference",
                                                        !.infers = @ + 1])
        /\ UNCHANGED <<cache, timestamps, now, class_names, calls, last, hist, web, life,
                       probe, cacheop, lab, spawn>>

(* self._cleanup_expired() as the first statement of set *)
SetCleanup ==
    \E t \in Tasks :
        /\ loop.tasks[t].pc = "set_cleanup"
        /\ CanRun(t)
        /\ LET c == cleanup_expired(CacheObj, now) IN
            /\ cache' = c.cache
            /\ timestamps' = c.timestamps
        /\ loop' = Moved(t, [loop.tasks[t] EXCEPT !.pc = "set_evict"])
        /\ UNCHANGED <<now, class_names, calls, last, hist, web, life, probe, cacheop,
                       lab, spawn>>

(* if len(self.cache) >= self.max_size: self.cache.pop(oldest_key, None) *)
SetEvict ==
    \E t \in Tasks :
        /\ loop.tasks[t].pc = "set_evict"
        /\ CanRun(t)
        /\ IF IsFull(CacheObj)
           THEN LET k == oldest_key(timestamps) IN
                /\ cache' = [x \in (DOMAIN cache) \ {k} |-> cache[x]]
                /\ loop' = Moved(t, [loop.tasks[t] EXCEPT !.pc = "set_evict_stamp",
                                                          !.evicted = {k}])
           ELSE /\ cache' = cache
                /\ loop' = Moved(t, [loop.tasks[t] EXCEPT !.pc = "set_value"])
        /\ UNCHANGED <<timestamps, now, class_names, calls, last, hist, web, life, probe,
                       cacheop, lab, spawn>>

(* self.timestamps.pop(oldest_key, None) *)
SetEvictStamp ==
    \E t \in Tasks :
        /\ loop.tasks[t].pc = "set_evict_stamp"
        /\ CanRun(t)
        /\ timestamps' = SelectSeq(timestamps, LAMBDA e : e[1] \notin loop.tasks[t].evicted)
        /\ loop' = Moved(t, [loop.tasks[t] EXCEPT !.pc = "set_value"])
        /\ UNCHANGED <<cache, now, class_names, calls, last, hist, web, life, probe,
                       cacheop, lab, spawn>>

(* self.cache[key] = value.  The calls for the same URL that are suspended  *)
(* in their fetch have missed before this insert: they and this call        *)
(* overlap.                                                                 *)
SetValue ==
    \E t \in Tasks :
        LET url == loop.tasks[t].url
            others == {s \in Tasks \ {t} : loop.tasks[s].url = url
                                           /\ loop.tasks[s].pc = "fetch"}
        IN /\ loop.tasks[t].pc = "set_value"
           /\ CanRun(t)
           /\ cache' = Store(cache, generate_cache_key(url), loop.tasks[t].value)
           /\ loop' = [loop EXCEPT
                         !.running = Running(t, "set_stamp"),
                         !.tasks = [s \in Tasks |->
                             IF s = t
                             THEN [@[s] EXCEPT !.pc = "set_stamp",
                                               !.overlap = @ \/ others # {}]
                             ELSE IF s \in others
                             THEN [@[s] EXCEPT !.overlap = TRUE]
                             ELSE @[s]]]
           /\ UNCHANGED <<timestamps, now, class_names, calls, last, hist, web, life,
                          probe, cacheop, lab, spawn>>

(* self.timestamps[key] = time.time(); set returns and predict returns the  *)
(* pair                                                                     *)
SetStamp ==
    \E t \in Tasks :
        /\ loop.tasks[t].pc = "set_stamp"
        /\ CanRun(t)
        /\ timestamps' = Assign(timestamps, generate_cache_key(loop.tasks[t].url), now)
        /\ loop' = [Moved(t, [loop.tasks[t] EXCEPT !.pc = "done",
                                                   !.state = "return",
                                                   !.stage = "done",
                                                   !.inserted = TRUE])
                    EXCEPT !.last = t]
        /\ UNCHANGED <<cache, now, class_names, calls, last, hist, web, life, probe,
                       cacheop, lab, spawn>>

(* the caller of a finished coroutine takes its outcome *)
Collect ==
    \E t \in Tasks :
        /\ loop.running = 0
        /\ loop.tasks[t].pc = "done"
        /\ loop' = [loop EXCEPT !.tasks[t] = IdleTask,
                                !.last = IF @ = t THEN 0 ELSE @]
        /\ UNCHANGED <<cache, timestamps, now, class_names, calls, last, hist, web, life,
                       probe, cacheop, lab, spawn>>

LoopNext ==
    \/ LoopTick
    \/ LoopCall
    \/ GetCleanup
    \/ GetLookup
    \/ FetchDone
    \/ Infer
    \/ SetCleanup
    \/ SetEvict
    \/ SetEvictStamp
    \/ SetValue
    \/ SetStamp
    \/ Collect

SpecLoop == LoopInit /\ [][LoopNext]_vars

(* the statements inside get or set after the first: a coroutine at one of  *)
(* them has begun a cache operation and not ended it                        *)
InCacheOp(pc) ==
    pc \in {"get_lookup", "set_evict", "set_evict_stamp", "set_value", "set_stamp"}

(* a coroutine the loop is not executing and that is not in the middle of a *)
(* cache operation                                                          *)
Parked(t) == loop.running # t /\ loop.tasks[t].pc \in {"idle", "fetch", "done"}

(* C21: under every interleaving of concurrent predict coroutines on one    *)
(* event loop, a coroutine that the loop is not executing is suspended in   *)
(* its fetch (or has not started, or has ended), never inside a get or a    *)
(* set; while one coroutine is inside a get or a set every other one is     *)
(* parked, so none of them sees the cache between the removal and the       *)
(* insertion of that set; and whenever the loop is free the two dicts hold  *)
(* the same keys.                                                           *)
C21_CriticalSections ==
    /\ \A t \in Tasks : loop.running # t => Parked(t)
    /\ \A t \in Tasks : InCacheOp(loop.tasks[t].pc) =>
            /\ loop.running = t
            /\ \A s \in Tasks \ {t} : Parked(s)
    /\ loop.running = 0 => TsKeys(timestamps) = DOMAIN cache

(* one coroutine stands between the eviction and the insert of its set, the *)
(* evicted key gone from both dicts, while another is suspended in a fetch  *)
C21_Witness ==
    \E t \in Tasks, s \in Tasks :
        /\ s # t
        /\ loop.tasks[t].pc = "set_value"
        /\ loop.tasks[t].evicted # {}
        /\ loop.tasks[t].evicted \cap DOMAIN cache = {}
        /\ generate_cache_key(loop.tasks[t].url) \notin DOMAIN cache
        /\ loop.tasks[s].pc = "fetch"

(* the two dicts hold the same keys, each once, and no more than max_size *)
Whole(c) ==
    /\ TsKeys(c.timestamps) = DOMAIN c.cache
    /\ Len(c.timestamps) = Cardinality(DOMAIN c.cache)
    /\ Cardinality(DOMAIN c.cache) <= max_size

(* task t executes the last statement of its set, as one of several calls   *)
(* for its URL that all missed before any of them inserted                  *)
OverlappingSetEnds(t) ==
    /\ loop.tasks[t].pc = "set_stamp"
    /\ loop.tasks[t].overlap
    /\ loop'.tasks[t].pc = "done"

(* C22: when predict calls for one URL overlap (each misses before any of   *)
(* them inserts), each of them that gets an image fetches once, runs the    *)
(* inference once and returns its pair, and at the return of each one's set *)
(* the cache holds one entry for the key, with the pair that call wrote:    *)
(* the last write wins.  Whenever the loop is free, before and after, the   *)
(* cache is within max_size and its two dicts hold the same keys.           *)
C22_LastWriteWins ==
    [][/\ loop.running = 0 => Whole(CacheObj)
       /\ \A t \in Tasks : OverlappingSetEnds(t) =>
            LET key == generate_cache_key(loop.tasks[t].url) IN
            /\ loop'.tasks[t].state = "return"
            /\ loop'.tasks[t].fetches = 1
            /\ loop'.tasks[t].infers = 1
            /\ key \in DOMAIN cache'
            /\ cache'[key] = loop'.tasks[t].value
            /\ Whole([cache |-> cache', timestamps |-> timestamps'])]_vars

(* two calls for one URL overlapped, both have returned, with different     *)
(* pairs, and the cache holds the pair of the one whose set returned last   *)
C22_Witness ==
    \E s \in Tasks, t \in Tasks :
        /\ s # t
        /\ loop.tasks[s].url = loop.tasks[t].url
        /\ loop.tasks[s].pc = "done" /\ loop.tasks[t].pc = "done"
        /\ loop.tasks[s].overlap /\ loop.tasks[t].overlap
        /\ loop.tasks[s].inserted /\ loop.tasks[t].inserted
        /\ loop.tasks[s].value # loop.tasks[t].value
        /\ loop.last = t
        /\ DOMAIN cache = {generate_cache_key(loop.tasks[t].url)}
        /\ cache[generate_cache_key(loop.tasks[t].url)] = loop.tasks[t].value

(* coroutine r has called cache.set (it is inside it or past it) *)
InSetOrAfter(r) ==
    \/ r.pc \in {"set_cleanup", "set_evict", "set_evict_stamp", "set_value", "set_stamp"}
    \/ r.inserted

(* C23: a predict call is one pass with no retry.  It makes at most one     *)
(* fetch and at most one inference run; the inference runs only after a     *)
(* fetch and decoding that succeeded; cache.set is called only after the    *)
(* inference succeeded and the pair was formed; and a call answered from    *)
(* the cache fetches nothing, infers nothing and inserts nothing.           *)
C23_OnePassNoRetry ==
    \A t \in Tasks :
        LET r == loop.tasks[t] IN
        /\ r.fetches <= 1
        /\ r.infers <= 1
        /\ r.pc = "infer" => r.fetches = 1 /\ r.infers = 0 /\ r.image # None
        /\ r.infers = 1 => r.fetches = 1 /\ r.stage \notin {"fetch", "decode", "cache"}
        /\ InSetOrAfter(r) => r.fetches = 1 /\ r.infers = 1 /\ Truthy(r.value)
        /\ r.state = "raise" => ~InSetOrAfter(r) /\ r.value = None
        /\ r.stage = "cache" =>
             r.pc = "done" /\ r.fetches = 0 /\ r.infers = 0 /\ ~r.inserted
        /\ r.pc = "done" /\ r.state = "raise" =>
             r.fetches = 1 /\ (r.infers = 1 <=> r.stage = "inference")

(* one call has ended raising after its one fetch, before any inference,    *)
(* and another has been answered from the cache                             *)
C23_Witness ==
    \E s \in Tasks, t \in Tasks :
        /\ loop.tasks[s].pc = "done"
        /\ loop.tasks[s].state = "raise"
        /\ loop.tasks[s].stage = "fetch"
        /\ loop.tasks[s].fetches = 1
        /\ loop.tasks[t].pc = "done"
        /\ loop.tasks[t].stage = "cache"

(* C24: over any sequence of predictor constructions on the same paths the  *)
(* labels file is written only by a construction that finds it absent, and  *)
(* so at most once; a construction that finds the file leaves it as it is;  *)
(* and a step that is no construction, the handling of a message by         *)
(* predict included, neither writes the file nor changes the predictor's    *)
(* label table.                                                             *)
C24_LabelsWrittenOnceOnFallback ==
    [][/\ proc'.writes # proc.writes =>
            /\ proc'.readies = proc.readies + 1
            /\ fs.labels = "absent"
            /\ fs'.labels = "list"
            /\ proc'.writes = 1
       /\ fs.labels # "absent" => fs' = fs /\ proc'.writes = proc.writes
       /\ fs' # fs => proc'.writes # proc.writes
       /\ proc'.readies = proc.readies =>
            /\ fs' = fs
            /\ predictor' = predictor
            /\ class_names' = class_names]_vars

(* two constructions were made, the first wrote the labels file, and a      *)
(* message was then answered by predict with the table still in place       *)
C24_Witness ==
    /\ proc.readies = 2
    /\ proc.writes = 1
    /\ proc.handled
    /\ predictor # None
    /\ DOMAIN cache # {}

(* C29: in the bot process, in every reachable state in which the predictor *)
(* global is set the http_session global is set too, and so it is once the  *)
(* cogs are loaded, also after the ready event has fired again: a cog that  *)
(* finds a predictor finds an HTTP session.                                 *)
C29_SessionBeforePredictor ==
    /\ predictor # None => http_session # None
    /\ proc.cogs => http_session # None
    /\ proc.readies >= 1 => http_session = Ref(proc.sessions)

(* the ready event has fired twice, the predictor is set, the session is    *)
(* the second one created, and a cog has handled a message                  *)
C29_Witness ==
    /\ proc.readies = 2
    /\ predictor # None
    /\ http_session = Ref(2)
    /\ proc.handled

(* C27: in every reachable state of PredictionCache, after any sequence of  *)
(* get and set calls, self.cache and self.timestamps have the same key set: *)
(* no value without a timestamp and no timestamp without a value.           *)
C27_SameKeys ==
    /\ \A k \in DOMAIN cache : k \in TsKeys(timestamps)
    /\ \A k \in TsKeys(timestamps) : k \in DOMAIN cache
    /\ Len(timestamps) = Cardinality(DOMAIN cache)

(* a get has just removed an entry, by its sweep or by its own age test,    *)
(* and left another in place                                                *)
C27_Witness ==
    /\ cacheop.name = "get"
    /\ Cardinality(DOMAIN cache) < Cardinality(DOMAIN cacheop.before.cache)
    /\ DOMAIN cache # {}

(***************************************************************************)
(* predict called with no session argument (session=None), the             *)
(* http_session global of the main module being set or not.                *)
(***************************************************************************)
NoSessionStart == PredictStartWith({"None"})

NoSessionNext ==
    \/ Tick
    \/ NoSessionStart
    \/ PredictResume
    \/ Deliver

SpecNoSession == Init /\ [][NoSessionNext]_vars

(* a predict call without a session argument ends before any fetch *)
EndsBeforeFetch == last = NoCall /\ last'.op = "predict" /\ last'.fetches = 0

(* the step left every entry of the cache as it was *)
CacheUntouched == cache' = cache /\ timestamps' = timestamps

(* the step inserted nothing and removed only entries older than the TTL *)
OnlyExpiredRemoved ==
    /\ DOMAIN cache' \subseteq DOMAIN cache
    /\ \A k \in DOMAIN cache' :
         cache'[k] = cache[k] /\ TsOf(timestamps', k) = TsOf(timestamps, k)
    /\ Len(timestamps') = Cardinality(DOMAIN cache')
    /\ \A k \in (DOMAIN cache) \ (DOMAIN cache') :
         now' - TsOf(timestamps, k) > ttl_seconds

(* C28 as stated: predict without a session returns the cached pair on a    *)
(* hit, and on a miss with no ambient http_session raises before any fetch  *)
(* or inference and leaves the cache unchanged.                             *)
C28_MissLeavesCacheUnchanged ==
    [][EndsBeforeFetch /\ last'.state = "raise" =>
            /\ last'.stage = "session"
            /\ last'.infers = 0
            /\ CacheUntouched]_vars

(* C28: predict without a session returns the cached pair on a hit, with    *)
(* no session needed; on a miss with no ambient http_session it raises      *)
(* ValueError before any fetch or inference and inserts nothing: the only   *)
(* change to the cache is the one the lookup itself makes, the removal of   *)
(* entries older than the TTL.                                              *)
C28_NoSession ==
    [][EndsBeforeFetch =>
            LET key == generate_cache_key(last'.url) IN
            /\ OnlyExpiredRemoved
            /\ last'.infers = 0
            /\ ~last'.inserted
            /\ IF key \in DOMAIN cache'
               THEN /\ last'.state = "return"
                    /\ last'.stage = "cache"
                    /\ last'.value = cache[key]
               ELSE /\ last'.state = "raise"
                    /\ last'.stage = "session"
                    /\ last'.error = <<"ValueError", "HTTP session not available">>]_vars

(* a call without any session has raised on a miss while the cache holds    *)
(* the entry of another URL                                                 *)
C28_Witness ==
    /\ last.op = "predict"
    /\ last.state = "raise"
    /\ last.stage = "session"
    /\ DOMAIN cache # {}

(***************************************************************************)
(* The label table, character by character.  lab is an installation and    *)
(* what constructions make of it: lab.dir the names of the subdirectories  *)
(* of the reference-image directory, lab.file the labels file (None when   *)
(* absent, else a reference to its JSON text: a list of string literals or *)
(* an object as a sequence of <<key literal, value literal>> in file       *)
(* order), lab.first and lab.later the tables returned by the first and by *)
(* a later construction, lab.idx an arg-max index and lab.answer the name  *)
(* predict returns for it.  lab.kind is "dir" for an installation with no  *)
(* labels file and "dict" for one whose labels file is a mapping.          *)
(***************************************************************************)
MaxIndex == 10

Quote == "\""

Backslash == "\\"

(* ord(ch) on the characters used *)
ord(ch) ==
    CASE ch = Quote -> 34
      [] ch = "0" -> 48
      [] ch = "1" -> 49
      [] ch = "2" -> 50
      [] ch = "A" -> 65
      [] ch = "B" -> 66
      [] ch = Backslash -> 92
      [] ch = "a" -> 97

(* a < b on str: the first differing character decides, a proper prefix is  *)
(* smaller                                                                  *)
RECURSIVE StrLess(_, _)
StrLess(a, b) ==
    IF b = "" THEN FALSE
    ELSE IF a = "" THEN TRUE
    ELSE IF SubSeq(a, 1, 1) = SubSeq(b, 1, 1) THEN StrLess(Tail(a), Tail(b))
    ELSE ord(SubSeq(a, 1, 1)) < ord(SubSeq(b, 1, 1))

(* sorted([...]) of distinct strings *)
RECURSIVE sorted(_)
sorted(S) ==
    IF S = {} THEN <<>>
    ELSE LET m == CHOOSE x \in S : \A y \in S \ {x} : StrLess(x, y)
         IN <<m>> \o sorted(S \ {m})

(* the body of a JSON string literal: quote and backslash are escaped *)
RECURSIVE json_escape(_)
json_escape(s) ==
    IF s = "" THEN ""
    ELSE LET ch == SubSeq(s, 1, 1) IN
         (IF ch = Quote \/ ch = Backslash THEN Backslash \o ch ELSE ch)
             \o json_escape(Tail(s))

(* the characters of a literal's body taken as they are, escapes included *)
json_unescapeMutRaw(s) == s

RECURSIVE json_unescape(_)
json_unescape(s) ==
    IF s = "" THEN ""
    ELSE IF SubSeq(s, 1, 1) = Backslash
    THEN SubSeq(s, 2, 2) \o json_unescape(SubSeq(s, 3, Len(s)))
    ELSE SubSeq(s, 1, 1) \o json_unescape(Tail(s))

(* json.dump of a str: the literal *)
json_dumps(s) == Quote \o json_escape(s) \o Quote

(* json.load of a string literal *)
json_loads(t) == json_unescape(SubSeq(t, 2, Len(t) - 1))

(* str.strip('"') *)
RECURSIVE lstrip(_)
lstrip(s) == IF s # "" /\ SubSeq(s, 1, 1) = Quote THEN lstrip(Tail(s)) ELSE s

RECURSIVE rstrip(_)
rstrip(s) ==
    IF s # "" /\ SubSeq(s, Len(s), Len(s)) = Quote
    THEN rstrip(SubSeq(s, 1, Len(s) - 1))
    ELSE s

strip(s) == rstrip(lstrip(s))

(* int(x) of a string of decimal digits *)
int(x) == ParseDigits(x, Len(x))

(* the order of two keys taken as strings *)
KeyBeforeMutLexicographic(a, b) == StrLess(a, b)

(* the order of two keys under key=lambda x: int(x) *)
KeyBefore(a, b) == int(a) < int(b)

(* sorted(data.keys(), key=lambda x: int(x)) on the decoded object data, a  *)
(* sequence of <<key, name>>: a stable sort, keys of equal value staying in *)
(* file order                                                               *)
sorted_keys(data) ==
    LET place(i) == 1 + Cardinality({j \in DOMAIN data :
                          \/ KeyBefore(data[j][1], data[i][1])
                          \/ /\ ~KeyBefore(data[i][1], data[j][1])
                             /\ j < i})
    IN [r \in DOMAIN data |-> data[CHOOSE i \in DOMAIN data : place(i) = r][1]]

(* data[k] *)
ValueOf(data, k) == data[CHOOSE i \in DOMAIN data : data[i][1] = k][2]

(* generate_labels_file_from_save_path on directory names dir: the table    *)
(* returned and the file written                                            *)
generate_labels_file(dir) ==
    LET names == sorted(dir) IN
    [names |-> names,
     file |-> Ref([shape |-> "list",
                   text |-> [i \in DOMAIN names |-> json_dumps(names[i])]])]

(* load_class_names on labels file file and directory names dir *)
load_labels(file, dir) ==
    IF file = None
    THEN generate_labels_file(dir)
    ELSE IF file[1].shape = "dict"
    THEN LET data == [i \in DOMAIN file[1].text |->
                         <<json_loads(file[1].text[i][1]), json_loads(file[1].text[i][2])>>]
             keys == sorted_keys(data)
         IN [names |-> [r \in DOMAIN keys |-> strip(ValueOf(data, keys[r]))],
             file |-> file]
    ELSE LET data == [i \in DOMAIN file[1].text |-> json_loads(file[1].text[i])]
         IN [names |-> [i \in DOMAIN data |-> strip(data[i])], file |-> file]

(* the names of the subdirectories *)
DirNames == {"A", "B", "AB", "A\"B", "a\\", "\"A\"", "B\""}

(* the keys and the names of a mapping *)
DictKeys == {"0", "1", "2", "10"}

DictNames == {"A", "\"B\""}

(* the sequences of one to three distinct keys *)
KeyLists ==
    {<<a>> : a \in DictKeys}
    \cup {ks \in {<<a, b>> : a \in DictKeys, b \in DictKeys} : ks[1] # ks[2]}
    \cup {ks \in {<<a, b, c>> : a \in DictKeys, b \in DictKeys, c \in DictKeys} :
            ks[1] # ks[2] /\ ks[1] # ks[3] /\ ks[2] # ks[3]}

(* the labels files that are mappings *)
DictFiles ==
    UNION {{Ref([shape |-> "dict",
                 text |-> [i \in DOMAIN ks |-> <<json_dumps(ks[i]), json_dumps(ns[i])>>]])
            : ns \in [DOMAIN ks -> DictNames]} : ks \in KeyLists}

Installations ==
    {[NoLab EXCEPT !.pc = "installed", !.kind = "dir", !.dir = d] : d \in SUBSET DirNames}
    \cup {[NoLab EXCEPT !.pc = "installed", !.kind = "dict", !.file = f] : f \in DictFiles}

LabInit ==
    /\ cache = <<>>
    /\ timestamps = <<>>
    /\ now = 0
    /\ class_names \in LabelTables
    /\ calls = EmptyBag
    /\ last = NoCall
    /\ hist = [u \in URLs |-> None]
    /\ web = [u \in URLs |-> None]
    /\ fs = Installed
    /\ predictor = None
    /\ http_session = None
    /\ proc = NotStarted
    /\ probe = NoProbe
    /\ cacheop = NoOp
    /\ loop = NoLoop
    /\ lab \in Installations
    /\ spawn = NoSpawn

(* the first Prediction() on the installation *)
FirstConstruction ==
    /\ lab.pc = "installed"
    /\ LET l == load_labels(lab.file, lab.dir) IN
        lab' = [lab EXCEPT !.pc = "constructed", !.first = Ref(l.names), !.file = l.file]
    /\ UNCHANGED <<cache, timestamps, now, class_names, calls, last, hist, web, life,
                   probe, cacheop, loop, spawn>>

(* a later Prediction() on the same paths *)
LaterConstruction ==
    /\ lab.pc = "constructed"
    /\ LET l == load_labels(lab.file, lab.dir) IN
        lab' = [lab EXCEPT !.pc = "reconstructed", !.later = Ref(l.names), !.file = l.file]
    /\ UNCHANGED <<cache, timestamps, now, class_names, calls, last, hist, web, life,
                   probe, cacheop, loop, spawn>>

(* predict on the later predictor, the model's arg-max index being idx:     *)
(* line 191                                                                 *)
PredictLabel ==
    /\ lab.pc = "reconstructed"
    /\ \E idx \in 0..MaxIndex :
        lab' = [lab EXCEPT !.pc = "predicted", !.idx = idx,
                           !.answer = Ref(LabelOf(lab.later[1], idx))]
    /\ UNCHANGED <<cache, timestamps, now, class_names, calls, last, hist, web, life,
                   probe, cacheop, loop, spawn>>

LabNext ==
    \/ FirstConstruction
    \/ LaterConstruction
    \/ PredictLabel

SpecLabels == LabInit /\ [][LabNext]_vars

(* no name begins or ends with a double quote *)
NoEdgeQuotes(names) == \A n \in names : strip(n) = n

(* a first-run construction and a later one have been made *)
RoundTrip == lab.kind = "dir" /\ lab.pc \in {"reconstructed", "predicted"}

(* C25 as stated: for every set of subdirectory names the table returned by *)
(* the first-run construction equals, element by element and in order, the  *)
(* table a later construction loads from the persisted labels file.         *)
C25_RoundTripEveryName == RoundTrip => lab.later = lab.first

(* C25: the table a later construction loads from the persisted file is the *)
(* first-run table, in the same order, with the double quotes at the ends   *)
(* of each name removed; the two tables are equal, element by element,      *)
(* whenever no subdirectory name begins or ends with a double quote.        *)
C25_RoundTrip ==
    RoundTrip =>
        /\ lab.first[1] = sorted(lab.dir)
        /\ Len(lab.later[1]) = Len(lab.first[1])
        /\ \A i \in DOMAIN lab.first[1] : lab.later[1][i] = strip(lab.first[1][i])
        /\ NoEdgeQuotes(lab.dir) => lab.later = lab.first

(* four names, one with a quote inside and one with a backslash, none with  *)
(* a quote at an end, went through the file and came back equal             *)
C25_Witness ==
    /\ RoundTrip
    /\ lab.dir = {"A", "AB", "A\"B", "a\\"}
    /\ lab.first = Ref(<<"A", "A\"B", "AB", "a\\">>)
    /\ lab.later = lab.first

(* the decoded object of the labels file: <<key, name>> in file order *)
DictData ==
    [i \in DOMAIN lab.file[1].text |->
        <<json_loads(lab.file[1].text[i][1]), json_loads(lab.file[1].text[i][2])>>]

(* the keys are the numbers 0 .. n-1, each once *)
Contiguous(data) ==
    {int(data[i][1]) : i \in DOMAIN data} = 0..(Len(data) - 1)

(* a predictor was constructed on a labels file that is a mapping *)
FromDict == lab.kind = "dict" /\ lab.pc \in {"constructed", "reconstructed", "predicted"}

SpawnPairs ==
    Pairs \cup {<<n, c>> : n \in {"Pikachu", ""},
                           c \in {"69.99%", "70.00%", "70.01%", "100.00%", "n/a", ""}}

PredictOutcomes == {<<"raise">>} \cup {<<"return", p[1], p[2]>> : p \in SpawnPairs}

(* str.rstrip('%') *)
RECURSIVE rstrip_percent(_)
rstrip_percent(s) ==
    IF s # "" /\ SubSeq(s, Len(s), Len(s)) = "%"
    THEN rstrip_percent(SubSeq(s, 1, Len(s) - 1))
    ELSE s

(* float(s) on digits, a dot and two digits, in hundredths; ValueError on   *)
(* the other strings used here                                              *)
float(s) ==
    IF IsConfidenceString(s \o "%")
    THEN [ok |-> TRUE, value |-> Hundredths(s \o "%")]
    ELSE [ok |-> FALSE, value |-> 0]

(* the threshold test with > for >= *)
MeetsThresholdMutStrict(hundredths) == hundredths > 7000

(* confidence_value >= 70.0 *)
MeetsThreshold(hundredths) == hundredths >= 7000

(* the listener is done: what it did *)
Handled(m, outcome, replies, log) ==
    [m EXCEPT !.pc = "handled", !.outcome = outcome, !.replies = @ + replies,
              !.log = log, !.escaped = FALSE]

(* on_message(message): pred is the predictor global, o what predict does   *)
(* if it is called, replyOk whether message.reply succeeds                  *)
on_message(m, pred, o, replyOk) ==
    IF m.own THEN Handled(m, None, 0, "")
    ELSE IF pred = None THEN Handled(m, None, 0, "")
    ELSE IF ~(m.poketwo /\ m.embed /\ m.image) THEN Handled(m, None, 0, "")
    ELSE IF o[1] = "raise" THEN Handled(m, o, 0, "Auto-detection error")
    ELSE IF ~(o[2] # "" /\ o[3] # "") THEN Handled(m, o, 0, "")
    ELSE LET f == float(rstrip_percent(o[3])) IN
         IF ~f.ok THEN Handled(m, o, 0, "Could not parse confidence value")
         ELSE IF ~MeetsThreshold(f.value)
         THEN Handled(m, o, 0, "Low confidence prediction skipped")
         ELSE IF replyOk THEN Handled(m, o, 1, "")
         ELSE Handled(m, o, 1, "Auto-detection error")

SpawnInit ==
    /\ cache = <<>>
    /\ timestamps = <<>>
    /\ now = 0
    /\ class_names \in LabelTables
    /\ calls = EmptyBag
    /\ last = NoCall
    /\ hist = [u \in URLs |-> None]
    /\ web = [u \in URLs |-> None]
    /\ fs = Installed
    /\ predictor \in {None, Ref(Prediction_init(Installed, class_names).self)}
    /\ http_session = Ref(1)
    /\ proc = Started
    /\ probe = NoProbe
    /\ cacheop = NoOp
    /\ loop = NoLoop
    /\ lab = NoLab
    /\ spawn \in {[NoSpawn EXCEPT !.pc = "received", !.own = a, !.poketwo = b,
                                  !.embed = c, !.image = d] :
                    a \in BOOLEAN, b \in BOOLEAN, c \in BOOLEAN, d \in BOOLEAN}

(* the listener runs on the message *)
OnSpawnMessage ==
    /\ spawn.pc = "received"
    /\ \E o \in PredictOutcomes, replyOk \in BOOLEAN :
        spawn' = [on_message(spawn, predictor, o, replyOk) EXCEPT !.replyOk = replyOk]
    /\ UNCHANGED <<cache, timestamps, now, class_names, calls, last, hist, web, life,
                   probe, cacheop, loop, lab>>

SpawnNext == OnSpawnMessage

SpecSpawn == SpawnInit /\ [][SpawnNext]_vars

(* the listener called predict on the message and predict returned a pair   *)
(* whose confidence, the percent signs at its end removed, is a number of   *)
(* at least 70.0                                                            *)
ConfidentPrediction ==
    /\ spawn.outcome # None
    /\ spawn.outcome[1] = "return"
    /\ float(rstrip_percent(spawn.outcome[3])).ok
    /\ float(rstrip_percent(spawn.outcome[3])).value >= 7000

=============================================================================
